---- MODULE Spec2Model ----
(***************************************************************************)
(* Model of the rbrl assignment engine (internal/schedule/scheduler.go):   *)
(* Schedule -> scheduler.run -> trySchedule (four phases) with the         *)
(* displacement search unrolled into single assign/unassign steps.         *)
(*                                                                         *)
(* Dates are day numbers; day 0 is a Monday, so Weekday(d) = d % 7 with    *)
(* 5 = Saturday and 6 = Sunday, and the ISO week of d is d \div 7 + 1.     *)
(* Times are minutes since midnight ("17:45" = 1065): the order of the     *)
(* "HH:MM" strings is the order of these numbers.  Teams and fields are    *)
(* numbered in the order of their names.  Go maps are functions whose      *)
(* DOMAIN is the set of keys present.                                      *)
(***************************************************************************)
EXTENDS Integers, Sequences, FiniteSets, TLC

VARIABLES
    cfg,            \* *config.Config: Teams, Rules, Guidelines, Season
    slots,          \* []Slot, regular season
    overflowSlots,  \* []Slot, overflow window
    games,          \* []strategy.Game
    pc,             \* where Schedule/run/trySchedule stands
    attempt,        \* loop variable of run
    cand,           \* the candidate scheduler of the running attempt
    remaining,      \* trySchedule's remaining list
    gi,             \* index into remaining in scheduleWithBacktracking
    p3unscheduled,  \* scheduleWithBacktracking's local unscheduled list
    stack,          \* tryDisplaceAtDepth activation records, innermost last
    bestResult,     \* run: best successful candidate (or Nil)
    bestScore,      \* run: its softScore
    bestFailure,    \* run: best failed candidate (or Nil)
    history,        \* ghost: outcome of every finished attempt
    firstDraws,     \* ghost: what the rng of the first attempt produced (Nil: not logged)
    sameDraws,      \* ghost: the running attempt drew what the first one drew
    satFull,        \* ghost: the Saturdays Phase 1 of the running attempt filled
    result,         \* what Schedule returned (or Nil)
    rebuilt         \* what a further call of buildMetrics returned (or Nil)

vars == <<cfg, slots, overflowSlots, games, pc, attempt, cand, remaining, gi,
          p3unscheduled, stack, bestResult, bestScore, bestFailure, history, firstDraws,
          sameDraws, satFull, result, rebuilt>>

Nil == [nil |-> TRUE]

\* Number of restart attempts explored (the code runs 50; see run).
MaxAttempts == 2

\* math.MaxFloat64 stands above every score the model can produce.
MaxFloat64 == 1000000000

Saturday == 5
Sunday == 6

Slot(d, t, f) == [Date |-> d, Time |-> t, Field |-> f]
Game(h, a, l) == [Home |-> h, Away |-> a, Label |-> l]

Weekday(d) == d % 7
ISOWeek(d) == (d \div 7) + 1

\* ---------------------------------------------------------------- Go maps
MapGet(m, k, default) == IF k \in DOMAIN m THEN m[k] ELSE default
MapPut(m, k, v) == [x \in (DOMAIN m) \cup {k} |-> IF x = k THEN v ELSE m[x]]
MapDelete(m, k) == [x \in (DOMAIN m) \ {k} |-> m[x]]
EmptyMap == [x \in {} |-> 0]

Range(s) == {s[i] : i \in DOMAIN s}
RemoveAt(s, i) == SubSeq(s, 1, i - 1) \o SubSeq(s, i + 1, Len(s))
Abs(x) == IF x < 0 THEN -x ELSE x

slotKey(slot) == <<slot.Date, slot.Time, slot.Field>>
timeKey(slot) == <<slot.Date, slot.Time>>
normalizeMatchup(a, b) == IF a > b THEN <<b, a>> ELSE <<a, b>>

AllTeams == cfg.Teams

\* ------------------------------------------------------------- scheduler
newScheduler ==
    [assignments |-> <<>>,
     usedSlots   |-> {},
     teamDates   |-> EmptyMap,
     teamGames   |-> EmptyMap,
     slotTimeCnt |-> EmptyMap,
     matchupDate |-> EmptyMap,
     unscheduled |-> <<>>,
     stuckOnGame |-> Nil]

RECURSIVE InsertAt(_, _, _)
InsertAt(dates, d, i) ==
    IF i <= Len(dates) /\ dates[i] < d
    THEN InsertAt(dates, d, i + 1)
    ELSE SubSeq(dates, 1, i - 1) \o <<d>> \o SubSeq(dates, i, Len(dates))

\* Variant of insertSorted: the date goes to the end of the list.
insertSortedAtEnd(dates, d) == Append(dates, d)

\* insertSorted: the date goes before the first later date.
insertSorted(dates, d) == InsertAt(dates, d, 1)

removeDate(dates, d) ==
    IF \E i \in DOMAIN dates : dates[i] = d
    THEN RemoveAt(dates, CHOOSE i \in DOMAIN dates :
                     dates[i] = d /\ \A j \in 1..(i - 1) : dates[j] # d)
    ELSE dates

assign(s, game, slot) ==
    LET td1 == MapPut(s.teamDates, game.Home,
                      insertSorted(MapGet(s.teamDates, game.Home, <<>>), slot.Date))
        td2 == MapPut(td1, game.Away,
                      insertSorted(MapGet(td1, game.Away, <<>>), slot.Date))
        tg1 == MapPut(s.teamGames, game.Home, MapGet(s.teamGames, game.Home, 0) + 1)
        tg2 == MapPut(tg1, game.Away, MapGet(tg1, game.Away, 0) + 1)
    IN [s EXCEPT
          !.assignments = Append(@, [Game |-> game, Slot |-> slot]),
          !.usedSlots   = @ \cup {slotKey(slot)},
          !.slotTimeCnt = MapPut(@, timeKey(slot), MapGet(@, timeKey(slot), 0) + 1),
          !.teamDates   = td2,
          !.teamGames   = tg2,
          !.matchupDate = MapPut(@, normalizeMatchup(game.Home, game.Away), slot.Date)]

\* The rebuild loop of unassign: the latest date among the remaining
\* assignments of the pair, no entry when there is none.
RebuildMatchupDate(md, rest, mk) ==
    LET ds == {rest[i].Slot.Date : i \in {j \in DOMAIN rest :
                  normalizeMatchup(rest[j].Game.Home, rest[j].Game.Away) = mk}}
    IN IF ds = {} THEN MapDelete(md, mk)
       ELSE MapPut(md, mk, CHOOSE d \in ds : \A e \in ds : e <= d)

unassign(s, idx) ==
    LET a    == s.assignments[idx]
        rest == RemoveAt(s.assignments, idx)
        td1  == MapPut(s.teamDates, a.Game.Home,
                       removeDate(MapGet(s.teamDates, a.Game.Home, <<>>), a.Slot.Date))
        td2  == MapPut(td1, a.Game.Away,
                       removeDate(MapGet(td1, a.Game.Away, <<>>), a.Slot.Date))
        tg1  == MapPut(s.teamGames, a.Game.Home, MapGet(s.teamGames, a.Game.Home, 0) - 1)
        tg2  == MapPut(tg1, a.Game.Away, MapGet(tg1, a.Game.Away, 0) - 1)
    IN [s EXCEPT
          !.assignments = rest,
          !.usedSlots   = @ \ {slotKey(a.Slot)},
          !.slotTimeCnt = MapPut(@, timeKey(a.Slot), MapGet(@, timeKey(a.Slot), 0) - 1),
          !.teamDates   = td2,
          !.teamGames   = tg2,
          !.matchupDate = RebuildMatchupDate(@, rest, normalizeMatchup(a.Game.Home, a.Game.Away))]

\* ------------------------------------------------------ hard constraints
RECURSIVE InsertBefore(_, _, _)
InsertBefore(dates, newDate, i) ==
    IF i > Len(dates) THEN Append(dates, newDate)
    ELSE IF newDate < dates[i]
         THEN SubSeq(dates, 1, i - 1) \o <<newDate>> \o SubSeq(dates, i, Len(dates))
         ELSE InsertBefore(dates, newDate, i + 1)

RECURSIVE ConsecutiveScan(_, _, _, _)
ConsecutiveScan(all, i, consecutive, maxConsec) ==
    IF i > Len(all) THEN FALSE
    ELSE IF all[i] - all[i - 1] = 1
         THEN IF consecutive + 1 > maxConsec THEN TRUE
              ELSE ConsecutiveScan(all, i + 1, consecutive + 1, maxConsec)
         ELSE ConsecutiveScan(all, i + 1, 1, maxConsec)

\* Variant of wouldMakeConsecutive: a streak one day longer is let through.
wouldMakeConsecutiveOffByOne(s, team, newDate, maxConsec) ==
    ConsecutiveScan(InsertBefore(MapGet(s.teamDates, team, <<>>), newDate, 1), 2, 1, maxConsec + 1)

wouldMakeConsecutive(s, team, newDate, maxConsec) ==
    ConsecutiveScan(InsertBefore(MapGet(s.teamDates, team, <<>>), newDate, 1), 2, 1, maxConsec)

gamesInWindow(s, team, center, windowDays) ==
    LET dates == MapGet(s.teamDates, team, <<>>)
    IN Cardinality({i \in DOMAIN dates :
           dates[i] >= center - (windowDays - 1) /\ dates[i] <= center + (windowDays - 1)})

WeekCount(s, team, date) ==
    LET dates == MapGet(s.teamDates, team, <<>>)
    IN Cardinality({i \in DOMAIN dates : ISOWeek(dates[i]) = ISOWeek(date)})

PlaysOn(s, team, date) ==
    \E i \in DOMAIN MapGet(s.teamDates, team, <<>>) : s.teamDates[team][i] = date

\* Variant of timeslotFull: the cap compared with > instead of >=.
timeslotFullOffByOne(s, game, slot) ==
    MapGet(s.slotTimeCnt, timeKey(slot), 0) > cfg.Rules.MaxGamesPerTimeslot

timeslotFull(s, game, slot) ==
    MapGet(s.slotTimeCnt, timeKey(slot), 0) >= cfg.Rules.MaxGamesPerTimeslot

\* A team of the game already plays on the slot's date.
doublePlay(s, game, slot) ==
    \E team \in {game.Home, game.Away} : PlaysOn(s, team, slot.Date)

consecutiveDays(s, game, slot) ==
    \E team \in {game.Home, game.Away} :
        wouldMakeConsecutive(s, team, slot.Date, cfg.Rules.MaxConsecutiveDays)

\* Variant of weekFull: the cap compared with > instead of >=.
weekFullOffByOne(s, game, slot) ==
    \E team \in {game.Home, game.Away} :
        WeekCount(s, team, slot.Date) > cfg.Rules.MaxGamesPerWeek

weekFull(s, game, slot) ==
    \E team \in {game.Home, game.Away} :
        WeekCount(s, team, slot.Date) >= cfg.Rules.MaxGamesPerWeek

\* Variant of threeInFour: two neighbouring games are let through.
threeInFourOffByOne(s, game, slot) ==
    /\ cfg.Rules.Max3In4Days
    /\ \E team \in {game.Home, game.Away} : gamesInWindow(s, team, slot.Date, 4) >= 3

threeInFour(s, game, slot) ==
    /\ cfg.Rules.Max3In4Days
    /\ \E team \in {game.Home, game.Away} : gamesInWindow(s, team, slot.Date, 4) >= 2

hardConstraintCheck(s, game, slot) ==
    IF timeslotFull(s, game, slot) THEN "rejectTimeslotCap"
    ELSE IF doublePlay(s, game, slot) THEN "rejectDoublePlay"
    ELSE IF consecutiveDays(s, game, slot) THEN "rejectConsecutiveDays"
    ELSE IF weekFull(s, game, slot) THEN "rejectMaxWeekGames"
    ELSE IF threeInFour(s, game, slot) THEN "reject3In4Days"
    ELSE "ok"

\* ---------------------------------------------------------- soft scoring
CountOn(s, team, day) ==
    LET dates == MapGet(s.teamDates, team, <<>>)
    IN Cardinality({i \in DOMAIN dates : Weekday(dates[i]) = day})

sundayGames(s, team) == CountOn(s, team, Sunday)
saturdayGames(s, team) == CountOn(s, team, Saturday)

SetMin(S) == CHOOSE x \in S : \A y \in S : x <= y
SetMax(S) == CHOOSE x \in S : \A y \in S : y <= x

minSundayGames(s) ==
    IF AllTeams = <<>> THEN 0
    ELSE SetMin({sundayGames(s, AllTeams[i]) : i \in DOMAIN AllTeams})

RECURSIVE SumOver(_, _)
SumOver(f, S) ==
    IF S = {} THEN 0
    ELSE LET x == CHOOSE y \in S : TRUE IN f[x] + SumOver(f, S \ {x})

\* scoreSlot's float64 result times ScoreScale, which makes every term
\* an integer (0.1 per day, 0.001 per minute, the average over the teams).
ScoreScale == 1000 * Len(AllTeams)

\* scoreSlot, "Avoid rematches too soon": the term, times ScoreScale.
rematchTerm(s, game, slot) ==
    LET mk      == normalizeMatchup(game.Home, game.Away)
        minDays == cfg.Guidelines.MinDaysBetweenSameMatchup
    IN IF mk \in DOMAIN s.matchupDate /\ slot.Date - s.matchupDate[mk] < minDays
       THEN (minDays - (slot.Date - s.matchupDate[mk])) * 5 * ScoreScale
       ELSE 0

scoreSlot(s, game, slot) ==
    LET n     == Len(AllTeams)
        total == SumOver(s.teamGames, DOMAIN s.teamGames)
        pace  == IF cfg.Guidelines.BalancePace
                 THEN 2000 * (Abs(MapGet(s.teamGames, game.Home, 0) * n - total)
                              + Abs(MapGet(s.teamGames, game.Away, 0) * n - total))
                 ELSE 0
        rematch == rematchTerm(s, game, slot)
        maxAllowed == minSundayGames(s) + 2
        sunTerm(team) == (IF sundayGames(s, team) >= maxAllowed THEN 1000 ELSE 0)
                         + sundayGames(s, team) * 10
        sun   == IF cfg.Guidelines.BalanceSundayGames /\ Weekday(slot.Date) = Sunday
                 THEN (sunTerm(game.Home) + sunTerm(game.Away)) * ScoreScale
                 ELSE 0
        day   == (slot.Date - cfg.Season.StartDate) * 100 * n
        late  == slot.Time * n
    IN pace + rematch + sun + day - late

\* Variant of LegalSlots: the occupancy set is not consulted.
LegalSlotsAnyOccupancy(s, game, slotSeq, among) ==
    {i \in among : hardConstraintCheck(s, game, slotSeq[i]) = "ok"}

\* Indices of slotSeq that are unused and pass the hard-constraint check.
LegalSlots(s, game, slotSeq, among) ==
    {i \in among : slotKey(slotSeq[i]) \notin s.usedSlots
                   /\ hardConstraintCheck(s, game, slotSeq[i]) = "ok"}

\* The loop "if score < bestScore": the first index of minimal score.
BestOf(s, game, legal) ==
    CHOOSE i \in legal : \A j \in legal :
        \/ scoreSlot(s, game, slots[i]) < scoreSlot(s, game, slots[j])
        \/ scoreSlot(s, game, slots[i]) = scoreSlot(s, game, slots[j]) /\ i <= j

\* Variant of assignGame: only the first slot of the list is looked at.
assignGameFirstSlotOnly(s, game) ==
    LET legal == LegalSlots(s, game, slots, DOMAIN slots \cap {1})
    IN IF legal = {} THEN [ok |-> FALSE, s |-> s]
       ELSE [ok |-> TRUE, s |-> assign(s, game, slots[BestOf(s, game, legal)])]

assignGame(s, game) ==
    LET legal == LegalSlots(s, game, slots, DOMAIN slots)
    IN IF legal = {} THEN [ok |-> FALSE, s |-> s]
       ELSE [ok |-> TRUE, s |-> assign(s, game, slots[BestOf(s, game, legal)])]

\* ------------------------------------------------------------ the phases
\* What rng.Shuffle can return: every ordering of the sequence.
Perms(seq) ==
    {[i \in DOMAIN seq |-> seq[f[i]]] :
        f \in {g \in [DOMAIN seq -> DOMAIN seq] : \A i, j \in DOMAIN seq : g[i] = g[j] => i = j}}

RECURSIVE SortedSeq(_)
SortedSeq(S) ==
    IF S = {} THEN <<>> ELSE <<SetMin(S)>> \o SortedSeq(S \ {SetMin(S)})

slotDates(day) == SortedSeq({slots[i].Date : i \in {j \in DOMAIN slots : Weekday(slots[j].Date) = day}})

slotsForDate(date) == {i \in DOMAIN slots : slots[i].Date = date}

\* findMatchRecursive, scanning indices from position k on; Nil when the
\* scan is exhausted without completing the match.
\* The nil slice findPerfectMatch returns when there is no matching; indices
\* of matchups start at 1, so no match holds a 0.
NoMatch == <<0>>

\* findMatchRecursive that gives up when its first choice leads nowhere.
RECURSIVE findMatchRecursiveNoBacktrack(_, _, _, _, _, _)
findMatchRecursiveNoBacktrack(pool, indices, k, teamUsed, match, needed) ==
    IF Len(match) = needed THEN match
    ELSE IF k > Len(indices) THEN NoMatch
    ELSE LET g == pool[indices[k]]
         IN IF g.Home \in teamUsed \/ g.Away \in teamUsed
            THEN findMatchRecursiveNoBacktrack(pool, indices, k + 1, teamUsed, match, needed)
            ELSE findMatchRecursiveNoBacktrack(pool, indices, 1,
                                teamUsed \cup {g.Home, g.Away},
                                Append(match, indices[k]), needed)

\* findMatchRecursive looking at the home team only.
RECURSIVE findMatchRecursiveHomeOnly(_, _, _, _, _, _)
findMatchRecursiveHomeOnly(pool, indices, k, teamUsed, match, needed) ==
    IF Len(match) = needed THEN match
    ELSE IF k > Len(indices) THEN NoMatch
    ELSE LET g == pool[indices[k]]
         IN IF g.Home \in teamUsed
            THEN findMatchRecursiveHomeOnly(pool, indices, k + 1, teamUsed, match, needed)
            ELSE LET sub == findMatchRecursiveHomeOnly(pool, indices, 1,
                                teamUsed \cup {g.Home, g.Away},
                                Append(match, indices[k]), needed)
                 IN IF sub # NoMatch THEN sub
                    ELSE findMatchRecursiveHomeOnly(pool, indices, k + 1, teamUsed, match, needed)

RECURSIVE findMatchRecursive(_, _, _, _, _, _)
findMatchRecursive(pool, indices, k, teamUsed, match, needed) ==
    IF Len(match) = needed THEN match
    ELSE IF k > Len(indices) THEN NoMatch
    ELSE LET g == pool[indices[k]]
         IN IF g.Home \in teamUsed \/ g.Away \in teamUsed
            THEN findMatchRecursive(pool, indices, k + 1, teamUsed, match, needed)
            ELSE LET sub == findMatchRecursive(pool, indices, 1,
                                teamUsed \cup {g.Home, g.Away},
                                Append(match, indices[k]), needed)
                 IN IF sub # NoMatch THEN sub
                    ELSE findMatchRecursive(pool, indices, k + 1, teamUsed, match, needed)

\* findPerfectMatch for one outcome (shuffled) of the shuffle of the unused indices.
findPerfectMatch(pool, shuffled) ==
    findMatchRecursive(pool, shuffled, 1, {}, <<>>, Len(AllTeams) \div 2)

\* The loop over one matching on one Saturday: st = [s, scheduled].
RECURSIVE PlaceMatch(_, _, _, _, _)
PlaceMatch(st, pool, match, k, sat) ==
    IF k > Len(match) THEN st
    ELSE LET game  == pool[match[k]]
             legal == LegalSlots(st.s, game, slots, slotsForDate(sat))
         IN IF legal = {} THEN PlaceMatch(st, pool, match, k + 1, sat)
            ELSE PlaceMatch([st EXCEPT !.s = assign(st.s, game, slots[BestOf(st.s, game, legal)]),
                                       !.scheduled = st.scheduled \cup {match[k]}],
                            pool, match, k + 1, sat)

UnusedIndices(pool, scheduled) == SortedSeq(DOMAIN pool \ scheduled)

\* Every state scheduleSaturdays can leave, over the outcomes of its shuffles;
\* st.drawn lists what each shuffle produced.
RECURSIVE SaturdayOutcomes(_, _, _)
SaturdayOutcomes(st, pool, k) ==
    IF k > Len(slotDates(Saturday)) THEN {st}
    ELSE UNION {
           LET match == findPerfectMatch(pool, shuffled)
               drew  == [st EXCEPT !.drawn = Append(st.drawn, shuffled)]
           IN IF match = NoMatch THEN SaturdayOutcomes(drew, pool, k + 1)
              ELSE SaturdayOutcomes(PlaceMatch(drew, pool, match, 1, slotDates(Saturday)[k]),
                                    pool, k + 1)
           : shuffled \in Perms(UnusedIndices(pool, st.scheduled))}

\* "var remaining; for i, g := range games { if !scheduled[i] ... }"
Unscheduled(pool, scheduled) ==
    LET idx == UnusedIndices(pool, scheduled)
    IN [i \in DOMAIN idx |-> pool[idx[i]]]

\* SundayCandidates without the fairness ceiling.
SundayCandidatesNoCeiling(st, pool, sun) ==
    {c \in (DOMAIN pool \ st.scheduled) \X slotsForDate(sun) :
        /\ slotKey(slots[c[2]]) \notin st.s.usedSlots
        /\ hardConstraintCheck(st.s, pool[c[1]], slots[c[2]]) = "ok"}

\* One pick of scheduleSundays' inner loop: the (game, slot) pair of minimal
\* score, the first in (game index, slot index) order; {} when none.
SundayCandidates(st, pool, sun) ==
    LET maxAllowed == minSundayGames(st.s) + 2
    IN {c \in (DOMAIN pool \ st.scheduled) \X slotsForDate(sun) :
          /\ sundayGames(st.s, pool[c[1]].Home) < maxAllowed
          /\ sundayGames(st.s, pool[c[1]].Away) < maxAllowed
          /\ slotKey(slots[c[2]]) \notin st.s.usedSlots
          /\ hardConstraintCheck(st.s, pool[c[1]], slots[c[2]]) = "ok"}

SundayScore(st, pool, c) ==
    (sundayGames(st.s, pool[c[1]].Home) + sundayGames(st.s, pool[c[1]].Away)) * 10 * ScoreScale
    + scoreSlot(st.s, pool[c[1]], slots[c[2]])

RECURSIVE SundayPicks(_, _, _, _, _)
SundayPicks(st, pool, sun, gamesThisSunday, maxGames) ==
    LET cands == SundayCandidates(st, pool, sun)
    IN IF gamesThisSunday >= maxGames \/ cands = {} THEN st
       ELSE LET best == CHOOSE c \in cands : \A d \in cands :
                           \/ SundayScore(st, pool, c) < SundayScore(st, pool, d)
                           \/ /\ SundayScore(st, pool, c) = SundayScore(st, pool, d)
                              /\ (c[1] < d[1] \/ (c[1] = d[1] /\ c[2] <= d[2]))
            IN SundayPicks([s |-> assign(st.s, pool[best[1]], slots[best[2]]),
                            scheduled |-> st.scheduled \cup {best[1]}],
                           pool, sun, gamesThisSunday + 1, maxGames)

RECURSIVE scheduleSundaysFrom(_, _, _)
scheduleSundaysFrom(st, pool, k) ==
    IF k > Len(slotDates(Sunday)) THEN st
    ELSE LET sun == slotDates(Sunday)[k]
             availableSlots == Cardinality({i \in slotsForDate(sun) :
                                   slotKey(slots[i]) \notin st.s.usedSlots})
             maxGames == IF availableSlots > cfg.Rules.MaxGamesPerTimeslot
                         THEN cfg.Rules.MaxGamesPerTimeslot ELSE availableSlots
         IN scheduleSundaysFrom(SundayPicks(st, pool, sun, 0, maxGames), pool, k + 1)

countAvailableSlots(s, game) == Cardinality(LegalSlots(s, game, slots, DOMAIN slots))

\* Insertion sort on the counts: stable, ascending.
RECURSIVE InsertByCount(_, _, _)
InsertByCount(sorted, g, s) ==
    IF sorted # <<>> /\ countAvailableSlots(s, g) < countAvailableSlots(s, sorted[Len(sorted)])
    THEN Append(InsertByCount(SubSeq(sorted, 1, Len(sorted) - 1), g, s), sorted[Len(sorted)])
    ELSE Append(sorted, g)

RECURSIVE sortByDifficulty(_, _)
sortByDifficulty(s, gs) ==
    IF gs = <<>> THEN <<>>
    ELSE InsertByCount(sortByDifficulty(s, SubSeq(gs, 1, Len(gs) - 1)), gs[Len(gs)], s)

\* Variant of scheduleOverflow: a game without an overflow slot is not
\* appended to the unscheduled list.
RECURSIVE scheduleOverflowForgetful(_, _, _)
scheduleOverflowForgetful(st, gs, k) ==
    IF k > Len(gs) THEN st
    ELSE LET legal == LegalSlots(st.s, gs[k], overflowSlots, DOMAIN overflowSlots)
         IN IF legal = {}
            THEN scheduleOverflowForgetful(st, gs, k + 1)
            ELSE scheduleOverflowForgetful(
                     [st EXCEPT !.s = assign(@, gs[k], overflowSlots[SetMin(legal)])], gs, k + 1)

\* Variant of scheduleOverflow: the last fitting overflow slot is taken.
RECURSIVE scheduleOverflowLastFit(_, _, _)
scheduleOverflowLastFit(st, gs, k) ==
    IF k > Len(gs) THEN st
    ELSE LET legal == LegalSlots(st.s, gs[k], overflowSlots, DOMAIN overflowSlots)
         IN IF legal = {}
            THEN scheduleOverflowLastFit([st EXCEPT !.unscheduled = Append(@, gs[k])], gs, k + 1)
            ELSE scheduleOverflowLastFit(
                     [st EXCEPT !.s = assign(@, gs[k], overflowSlots[SetMax(legal)])], gs, k + 1)

\* scheduleOverflow: st = [s, unscheduled]; first fit in overflow order.
RECURSIVE scheduleOverflow(_, _, _)
scheduleOverflow(st, gs, k) ==
    IF k > Len(gs) THEN st
    ELSE LET legal == LegalSlots(st.s, gs[k], overflowSlots, DOMAIN overflowSlots)
         IN IF legal = {}
            THEN scheduleOverflow([st EXCEPT !.unscheduled = Append(@, gs[k])], gs, k + 1)
            ELSE scheduleOverflow([st EXCEPT !.s = assign(@, gs[k], overflowSlots[SetMin(legal)])],
                                  gs, k + 1)

\* ------------------------------------------------------- attempt scoring
\* Dates of a pair's meetings as a sorted list that keeps equal dates.
RECURSIVE SortDates(_)
SortDates(dates) ==
    IF dates = <<>> THEN <<>>
    ELSE insertSorted(SortDates(SubSeq(dates, 1, Len(dates) - 1)), dates[Len(dates)])

MatchupDates(s, mk) ==
    LET idx == SortedSeq({j \in DOMAIN s.assignments :
                   normalizeMatchup(s.assignments[j].Game.Home, s.assignments[j].Game.Away) = mk})
    IN SortDates([i \in DOMAIN idx |-> s.assignments[idx[i]].Slot.Date])

MatchupKeys(s) ==
    {normalizeMatchup(s.assignments[i].Game.Home, s.assignments[i].Game.Away) :
        i \in DOMAIN s.assignments}

IsOverflowDate(d) == d > cfg.Season.EndDate

overflowDaysUsed(s) ==
    IF ~cfg.Season.HasOverflowEnd THEN 0
    ELSE Cardinality({s.assignments[i].Slot.Date : i \in {j \in DOMAIN s.assignments :
                         IsOverflowDate(s.assignments[j].Slot.Date)}})

\* Variant of overflowGamesCount: every game counts.
overflowGamesCountAll(s) ==
    IF ~cfg.Season.HasOverflowEnd THEN 0 ELSE Len(s.assignments)

overflowGamesCount(s) ==
    IF ~cfg.Season.HasOverflowEnd THEN 0
    ELSE Cardinality({j \in DOMAIN s.assignments : IsOverflowDate(s.assignments[j].Slot.Date)})

\* softScore, "Overflow usage": per overflow day used, plus per game.
overflowPenalty(s) == overflowDaysUsed(s) * 1000 + overflowGamesCount(s) * 100

\* Variant of threeInFourPenalty: three games count when they lie within 3 days.
threeInFourPenaltyNarrow(s) ==
    LET tight(i) == LET dates == MapGet(s.teamDates, AllTeams[i], <<>>)
                    IN 10 * Cardinality({k \in 3..Len(dates) : dates[k] - dates[k - 2] <= 2})
    IN SumOver([i \in DOMAIN AllTeams |-> tight(i)], DOMAIN AllTeams)

\* softScore, "3-in-4-days violations".
threeInFourPenalty(s) ==
    LET tight(i) == LET dates == MapGet(s.teamDates, AllTeams[i], <<>>)
                    IN 10 * Cardinality({k \in 3..Len(dates) : dates[k] - dates[k - 2] <= 3})
    IN SumOver([i \in DOMAIN AllTeams |-> tight(i)], DOMAIN AllTeams)

\* softScore, "Rematch proximity".
rematchPenalty(s) ==
    LET minDays  == cfg.Guidelines.MinDaysBetweenSameMatchup
        close(mk) == LET dates == MatchupDates(s, mk)
                         near  == {k \in 2..Len(dates) : dates[k] - dates[k - 1] < minDays}
                     IN SumOver([k \in near |-> (minDays - (dates[k] - dates[k - 1])) * 5], near)
    IN SumOver([mk \in MatchupKeys(s) |-> close(mk)], MatchupKeys(s))

softScore(s) ==
    LET counts == {s.teamGames[t] : t \in DOMAIN s.teamGames}
        pace   == IF DOMAIN s.teamGames # {}
                  THEN SetMax(counts \cup {0}) - SetMin(counts) ELSE 0
        numSaturdays == Len(slotDates(Saturday))
        satTerm(i) == IF saturdayGames(s, AllTeams[i]) < numSaturdays
                      THEN (numSaturdays - saturdayGames(s, AllTeams[i])) * 50 ELSE 0
        sat    == SumOver([i \in DOMAIN AllTeams |-> satTerm(i)], DOMAIN AllTeams)
        suns   == {sundayGames(s, AllTeams[i]) : i \in DOMAIN AllTeams}
        sunSpread == IF suns = {} THEN 0 ELSE SetMax(suns \cup {0}) - SetMin(suns)
        sun    == IF sunSpread > 2 THEN sunSpread * 20 ELSE 0
    IN pace + sat + sun + threeInFourPenalty(s) + rematchPenalty(s) + overflowPenalty(s)

\* --------------------------------------------------------------- metrics
\* Warnings are records of what the formatted string shows.  Dates stand for
\* their "01/02" text: a season lies within one year.
latestOverflowDate(s) ==
    LET late == {s.assignments[j].Slot.Date : j \in {i \in DOMAIN s.assignments :
                    IsOverflowDate(s.assignments[i].Slot.Date)}}
    IN IF ~cfg.Season.HasOverflowEnd \/ late = {} THEN 0 ELSE SetMax(late)

\* buildMetrics, "Initialize metrics for all teams".
InitialMetrics(s) ==
    [i \in DOMAIN AllTeams |->
        [Games      |-> MapGet(s.teamGames, AllTeams[i], 0),
         Saturday   |-> saturdayGames(s, AllTeams[i]),
         Sunday     |-> sundayGames(s, AllTeams[i]),
         Violations |-> <<>>]]

\* buildMetrics, "Check 3-in-4-days": the warnings of the teams from index i on.
RECURSIVE ThreeInFourWarnings(_, _)
ThreeInFourWarnings(s, i) ==
    IF i > Len(AllTeams) THEN <<>>
    ELSE LET dates == MapGet(s.teamDates, AllTeams[i], <<>>)
             hits  == SortedSeq({k \in 3..Len(dates) : dates[k] - dates[k - 2] <= 3})
         IN [n \in DOMAIN hits |->
                [kind |-> "3in4", team |-> AllTeams[i],
                 dates |-> <<dates[hits[n] - 2], dates[hits[n] - 1], dates[hits[n]]>>]]
            \o ThreeInFourWarnings(s, i + 1)

\* The rematch violations of one pair, in date order.
PairViolations(s, mk) ==
    LET dates == MatchupDates(s, mk)
        near  == SortedSeq({k \in 2..Len(dates) :
                     dates[k] - dates[k - 1] < cfg.Guidelines.MinDaysBetweenSameMatchup})
    IN [n \in DOMAIN near |->
           [kind |-> "rematch", teamA |-> mk[1], teamB |-> mk[2],
            days |-> dates[near[n]] - dates[near[n] - 1],
            min  |-> cfg.Guidelines.MinDaysBetweenSameMatchup,
            from |-> dates[near[n] - 1], to |-> dates[near[n]]]]

\* "for mk, dates := range matchups": the pairs in the order the map yields them.
RECURSIVE CollectViolations(_, _, _)
CollectViolations(s, keyOrder, k) ==
    IF k > Len(keyOrder) THEN <<>>
    ELSE PairViolations(s, keyOrder[k]) \o CollectViolations(s, keyOrder, k + 1)

\* One pass of the insertion sort: rv moves left past every entry with more days.
RECURSIVE InsertByDays(_, _)
InsertByDays(sorted, rv) ==
    IF sorted = <<>> THEN <<rv>>
    ELSE IF rv.days < sorted[Len(sorted)].days
         THEN Append(InsertByDays(SubSeq(sorted, 1, Len(sorted) - 1), rv), sorted[Len(sorted)])
         ELSE Append(sorted, rv)

\* Variant of SortByDays: the violations stay in the order they were collected.
SortByDaysSkipped(rvs) == rvs

\* "Sort: fewest days (worst) first".
RECURSIVE SortByDays(_)
SortByDays(rvs) ==
    IF rvs = <<>> THEN <<>>
    ELSE InsertByDays(SortByDays(SubSeq(rvs, 1, Len(rvs) - 1)), rvs[Len(rvs)])

\* The orders in which a range over the matchups map can yield its keys.
RECURSIVE SeqOfSet(_)
SeqOfSet(S) ==
    IF S = {} THEN <<>>
    ELSE LET x == CHOOSE y \in S : TRUE IN <<x>> \o SeqOfSet(S \ {x})

KeyOrders(s) == Perms(SeqOfSet(MatchupKeys(s)))

SelectWarnings(ws, team) ==
    LET hit == SortedSeq({i \in DOMAIN ws :
                   \/ ws[i].kind = "3in4" /\ ws[i].team = team
                   \/ ws[i].kind = "rematch" /\ team \in {ws[i].teamA, ws[i].teamB}})
    IN [n \in DOMAIN hit |-> ws[hit[n]]]

\* buildMetrics for one order of the range over the matchups map.
buildMetrics(s, keyOrder) ==
    LET threes   == ThreeInFourWarnings(s, 1)
        rematch  == SortByDays(CollectViolations(s, keyOrder, 1))
        m0       == InitialMetrics(s)
        suns     == {m0[i].Sunday : i \in DOMAIN m0}
        maxSun   == SetMax(suns \cup {0})
        sunday   == IF suns # {} /\ maxSun - SetMin(suns) > 1
                    THEN <<[kind |-> "sunday", min |-> SetMin(suns), max |-> maxSun]>>
                    ELSE <<>>
        overflow == IF overflowDaysUsed(s) > 0
                    THEN <<[kind |-> "overflow", games |-> overflowGamesCount(s),
                            days |-> overflowDaysUsed(s), through |-> latestOverflowDate(s)]>>
                    ELSE <<>>
    IN [warnings |-> threes \o rematch \o sunday \o overflow,
        metrics  |-> [i \in DOMAIN AllTeams |->
                         [m0[i] EXCEPT !.Violations = SelectWarnings(threes \o rematch, AllTeams[i])]]]

\* ------------------------------------------------------- slot generation
\* Reservation.Dates: the range when both ends are given, else the single date.
\* (The pointers Date, StartDate, EndDate are a flag and a value each.)
ReservationDates(r) ==
    IF r.HasStartDate /\ r.HasEndDate THEN r.StartDate..r.EndDate
    ELSE IF r.HasDate THEN {r.Date}
    ELSE {}

ReservationsOf(c, field) ==
    UNION {Range(c.Fields[i].Reservations) : i \in {k \in DOMAIN c.Fields : c.Fields[k].Name = field}}

\* Variant of fullDayRes: only single-date reservations are looked up.
fullDayResSingleDate(c, field, d) ==
    \E r \in ReservationsOf(c, field) : r.HasDate /\ d = r.Date /\ Len(r.Times) = 0

\* The fullDayRes lookup.
fullDayRes(c, field, d) ==
    \E r \in ReservationsOf(c, field) : d \in ReservationDates(r) /\ Len(r.Times) = 0

\* The reservations lookup.
reservations(c, field, d, tm) ==
    \E r \in ReservationsOf(c, field) :
        d \in ReservationDates(r) /\ Len(r.Times) # 0 /\ tm \in Range(r.Times)

\* Variant of timesForDay: a holiday keeps the list of its weekday.
timesForDayNoHoliday(c, d) ==
    IF Weekday(d) = Saturday THEN c.TimeSlots.Saturday
    ELSE IF Weekday(d) = Sunday THEN c.TimeSlots.Sunday
    ELSE c.TimeSlots.Weekday

timesForDay(c, d) ==
    IF d \in Range(c.TimeSlots.HolidayDates) THEN c.TimeSlots.Sunday
    ELSE IF Weekday(d) = Saturday THEN c.TimeSlots.Saturday
    ELSE IF Weekday(d) = Sunday THEN c.TimeSlots.Sunday
    ELSE c.TimeSlots.Weekday

\* "for _, t := range times { for _, f := range cfg.Fields { ... } }" for one date.
DaySlots(c, d) ==
    LET times == timesForDay(c, d)
        nf    == Len(c.Fields)
        all   == [k \in 1..(Len(times) * nf) |->
                     Slot(d, times[((k - 1) \div nf) + 1], c.Fields[((k - 1) % nf) + 1].Name)]
    IN SelectSeq(all, LAMBDA s : ~fullDayRes(c, s.Field, d) /\ ~reservations(c, s.Field, d, s.Time))

\* The loop over the dates d, d+1, ..., last.
RECURSIVE SlotsFrom(_, _, _)
SlotsFrom(c, d, last) ==
    IF d > last THEN <<>>
    ELSE (IF d \in Range(c.Season.BlackoutDates) THEN <<>> ELSE DaySlots(c, d))
         \o SlotsFrom(c, d + 1, last)

\* The less function of sort.Slice: date, then time, then field.
SlotLess(a, b) ==
    IF a.Date # b.Date THEN a.Date < b.Date
    ELSE IF a.Time # b.Time THEN a.Time < b.Time
    ELSE a.Field < b.Field

RECURSIVE InsertSlot(_, _)
InsertSlot(sorted, s) ==
    IF sorted = <<>> THEN <<s>>
    ELSE IF SlotLess(s, sorted[Len(sorted)])
         THEN Append(InsertSlot(SubSeq(sorted, 1, Len(sorted) - 1), s), sorted[Len(sorted)])
         ELSE Append(sorted, s)

RECURSIVE SortSlots(_)
SortSlots(ss) ==
    IF ss = <<>> THEN <<>>
    ELSE InsertSlot(SortSlots(SubSeq(ss, 1, Len(ss) - 1)), ss[Len(ss)])

GenerateSlots(c) == SortSlots(SlotsFrom(c, c.Season.StartDate, c.Season.EndDate))

GenerateOverflowSlots(c) ==
    IF ~c.Season.HasOverflowEnd THEN <<>>
    ELSE SortSlots(SlotsFrom(c, c.Season.EndDate + 1, c.Season.OverflowEndDate))

\* ------------------------------------------------------------- validator
\* The rule checks of the validator, applied to a list of assignments (the
\* rows it reads back from the workbook).  Each yields its "error" violations.
DatesOfTeam(as, team) ==
    LET idx == SortedSeq({i \in DOMAIN as : as[i].Game.Home = team \/ as[i].Game.Away = team})
    IN SortDates([n \in DOMAIN idx |-> as[idx[n]].Slot.Date])

TeamsIn(as) == {as[i].Game.Home : i \in DOMAIN as} \cup {as[i].Game.Away : i \in DOMAIN as}

\* buildTeamDates: the teams that occur, each with its sorted dates.
buildTeamDates(as) == [team \in TeamsIn(as) |-> DatesOfTeam(as, team)]

checkMaxGamesPerDay(as) ==
    {<<"day", td[1], td[2]>> : td \in
        {q \in TeamsIn(as) \X {as[i].Slot.Date : i \in DOMAIN as} :
            Cardinality({i \in DOMAIN as :
                /\ as[i].Slot.Date = q[2]
                /\ (as[i].Game.Home = q[1] \/ as[i].Game.Away = q[1])})
            > cfg.Rules.MaxGamesPerDayPerTeam}}

\* The running count "consecutive" after the date at position i.
RECURSIVE ConsecutiveAt(_, _)
ConsecutiveAt(dates, i) ==
    IF i = 1 THEN 1
    ELSE IF dates[i] - dates[i - 1] = 1 THEN ConsecutiveAt(dates, i - 1) + 1 ELSE 1

checkConsecutiveDays(as) ==
    LET td == buildTeamDates(as)
    IN {<<"consecutive", q[1], q[2]>> : q \in
           {r \in (DOMAIN td) \X (2..Len(as)) :
               /\ r[2] <= Len(td[r[1]])
               /\ td[r[1]][r[2]] - td[r[1]][r[2] - 1] = 1
               /\ ConsecutiveAt(td[r[1]], r[2]) > cfg.Rules.MaxConsecutiveDays}}

checkMaxGamesPerWeek(as) ==
    LET td == buildTeamDates(as)
    IN {<<"week", q[1], q[2]>> : q \in
           {r \in (DOMAIN td) \X {ISOWeek(as[i].Slot.Date) : i \in DOMAIN as} :
               Cardinality({i \in DOMAIN td[r[1]] : ISOWeek(td[r[1]][i]) = r[2]})
               > cfg.Rules.MaxGamesPerWeek}}

checkMaxGamesPerTimeslot(as) ==
    {<<"timeslot", as[k].Slot.Date, as[k].Slot.Time>> : k \in
        {j \in DOMAIN as :
            Cardinality({i \in DOMAIN as : /\ as[i].Slot.Date = as[j].Slot.Date
                                          /\ as[i].Slot.Time = as[j].Slot.Time})
            > cfg.Rules.MaxGamesPerTimeslot}}

check3In4Days(as) ==
    IF ~cfg.Rules.Max3In4Days THEN {}
    ELSE LET td == buildTeamDates(as)
         IN {<<"3in4", q[1], q[2]>> : q \in
                {r \in (DOMAIN td) \X (3..Len(as)) :
                    /\ r[2] <= Len(td[r[1]])
                    /\ td[r[1]][r[2]] - td[r[1]][r[2] - 2] <= 3}}

checkGameCompleteness(as) ==
    {<<"nogames", AllTeams[i]>> : i \in {k \in DOMAIN AllTeams : AllTeams[k] \notin TeamsIn(as)}}

\* The violations of type "error" Validate reports.
ValidateErrors(as) ==
    checkMaxGamesPerDay(as) \cup checkConsecutiveDays(as) \cup checkMaxGamesPerWeek(as)
    \cup checkMaxGamesPerTimeslot(as) \cup check3In4Days(as) \cup checkGameCompleteness(as)

\* ---------------------------------------------------------------- inputs
WeekdayTime == 1065
SaturdayTime == 750
SaturdayLateTime == 885
SundayTime == 1020

TestRules ==
    [MaxGamesPerDayPerTeam |-> 1, MaxConsecutiveDays |-> 2, MaxGamesPerWeek |-> 3,
     MaxGamesPerTimeslot |-> 2, Max3In4Days |-> FALSE]

TightRules ==
    [MaxGamesPerDayPerTeam |-> 2, MaxConsecutiveDays |-> 1, MaxGamesPerWeek |-> 2,
     MaxGamesPerTimeslot |-> 1, Max3In4Days |-> TRUE]

WindowRules == [TestRules EXCEPT !.Max3In4Days = TRUE]

\* A rules block with max_games_per_day_per_team left out of the YAML: the
\* field keeps Go's zero value (config validation does not look at the rules).
DayCapUnsetRules == [TestRules EXCEPT !.MaxGamesPerDayPerTeam = 0]

\* A rules block with max_consecutive_days left out of the YAML.
StreakUnsetRules == [TestRules EXCEPT !.MaxConsecutiveDays = 0]

\* A rules block left out altogether: the zero value of config.Rules.
ZeroRules ==
    [MaxGamesPerDayPerTeam |-> 0, MaxConsecutiveDays |-> 0, MaxGamesPerWeek |-> 0,
     MaxGamesPerTimeslot |-> 0, Max3In4Days |-> FALSE]

RuleSets == {TestRules, WindowRules, TightRules, DayCapUnsetRules, ZeroRules}

TestGuidelines ==
    [MinDaysBetweenSameMatchup |-> 14, BalanceSundayGames |-> TRUE, BalancePace |-> TRUE]

\* A layout: the season window, the slot lists GenerateSlots and
\* GenerateOverflowSlots hand over (sorted by date, time, field) and the
\* matchup list.
\* Three weekday slots on two days.
TwoDays ==
    [EndDate |-> 1, HasOverflowEnd |-> FALSE,
     slots |-> <<Slot(0, WeekdayTime, 1), Slot(1, WeekdayTime, 1), Slot(1, WeekdayTime, 2)>>,
     overflow |-> <<>>,
     games |-> <<Game(3, 4, "g1"), Game(1, 2, "g2"), Game(1, 3, "g3")>>]

\* Monday, Thursday and Sunday of one week; one team is in every game.
ThreeDaysApart ==
    [EndDate |-> 6, HasOverflowEnd |-> FALSE,
     slots |-> <<Slot(0, WeekdayTime, 1), Slot(3, WeekdayTime, 1), Slot(6, SundayTime, 1)>>,
     overflow |-> <<>>,
     games |-> <<Game(1, 2, "g1"), Game(3, 1, "g2"), Game(1, 4, "g3")>>]

Layouts ==
    { TwoDays,
      \* fewer slots than matchups, no overflow window
      [EndDate |-> 1, HasOverflowEnd |-> FALSE,
       slots |-> <<Slot(0, WeekdayTime, 1), Slot(1, WeekdayTime, 1)>>,
       overflow |-> <<>>,
       games |-> <<Game(3, 4, "g1"), Game(1, 2, "g2"), Game(1, 3, "g3")>>],
      \* one regular slot, one overflow slot
      [EndDate |-> 0, HasOverflowEnd |-> TRUE,
       slots |-> <<Slot(0, WeekdayTime, 1)>>,
       overflow |-> <<Slot(2, WeekdayTime, 1)>>,
       games |-> <<Game(3, 4, "g1"), Game(1, 2, "g2"), Game(1, 3, "g3")>>],
      \* one team in every matchup, slots every other day
      [EndDate |-> 4, HasOverflowEnd |-> FALSE,
       slots |-> <<Slot(0, WeekdayTime, 1), Slot(2, WeekdayTime, 1), Slot(4, WeekdayTime, 1)>>,
       overflow |-> <<>>,
       games |-> <<Game(1, 2, "g1"), Game(1, 3, "g2"), Game(4, 1, "g3")>>],
      \* one team in every matchup, three slots within four days
      [EndDate |-> 3, HasOverflowEnd |-> TRUE,
       slots |-> <<Slot(0, WeekdayTime, 1), Slot(2, WeekdayTime, 1), Slot(3, WeekdayTime, 1)>>,
       overflow |-> <<Slot(4, WeekdayTime, 1), Slot(7, WeekdayTime, 1)>>,
       games |-> <<Game(1, 2, "g1"), Game(1, 3, "g2"), Game(4, 1, "g3")>>],
      \* a Sunday and the two days after it; two of the matchups are a rematch
      [EndDate |-> 8, HasOverflowEnd |-> FALSE,
       slots |-> <<Slot(6, SundayTime, 1), Slot(7, WeekdayTime, 1), Slot(8, WeekdayTime, 1)>>,
       overflow |-> <<>>,
       games |-> <<Game(1, 2, "g1"), Game(3, 4, "g2"), Game(2, 1, "g3")>>] }

\* A weekend followed by a Monday, with a short overflow window.
Weekend ==
    [EndDate |-> 7, HasOverflowEnd |-> TRUE,
     slots |-> <<Slot(5, SaturdayTime, 1), Slot(5, SaturdayTime, 2),
                 Slot(6, SundayTime, 1), Slot(7, WeekdayTime, 1)>>,
     overflow |-> <<Slot(8, WeekdayTime, 1)>>,
     games |-> <<Game(1, 2, "g1"), Game(3, 4, "g2"), Game(1, 3, "g3"), Game(2, 1, "g4")>>]

\* Two pairs that meet twice, two fields on each of two days.
TwoRematches ==
    [EndDate |-> 2, HasOverflowEnd |-> FALSE,
     slots |-> <<Slot(0, WeekdayTime, 1), Slot(0, WeekdayTime, 2), Slot(2, WeekdayTime, 1),
                 Slot(2, WeekdayTime, 2)>>,
     overflow |-> <<>>,
     games |-> <<Game(1, 2, "g1"), Game(3, 4, "g2"), Game(2, 1, "g3"), Game(4, 3, "g4")>>]

\* One pair that meets three times, unevenly spaced slots.
TripleMeeting ==
    [EndDate |-> 4, HasOverflowEnd |-> FALSE,
     slots |-> <<Slot(1, WeekdayTime, 1), Slot(3, WeekdayTime, 1), Slot(4, WeekdayTime, 1)>>,
     overflow |-> <<>>,
     games |-> <<Game(1, 2, "g1"), Game(2, 1, "g2"), Game(1, 2, "g3")>>]

\* A Tuesday and the Saturday after it at two venues: the rematch left over
\* from the Saturday lands on the Tuesday, the fourth game has no slot.
BlockedFourth ==
    [EndDate |-> 5, HasOverflowEnd |-> FALSE,
     slots |-> <<Slot(1, WeekdayTime, 1), Slot(5, SaturdayTime, 1), Slot(5, SaturdayTime, 2)>>,
     overflow |-> <<>>,
     games |-> <<Game(1, 2, "g1"), Game(3, 4, "g2"), Game(2, 1, "g3"), Game(1, 3, "g4")>>]

\* One matchup met three times, a Sunday after two weekday slots: the Sunday
\* is filled first, the weekday meetings after it.
SundayFirst ==
    [EndDate |-> 6, HasOverflowEnd |-> FALSE,
     slots |-> <<Slot(1, WeekdayTime, 1), Slot(3, WeekdayTime, 1), Slot(6, SundayTime, 1)>>,
     overflow |-> <<>>,
     games |-> <<Game(1, 2, "g1"), Game(2, 1, "g2"), Game(1, 2, "g3")>>]

\* The inputs of Schedule: a layout and the rules of the configuration.
Cases ==
    (Layouts \X RuleSets) \cup ({Weekend} \X (RuleSets \ {ZeroRules})) \cup ({TripleMeeting, BlockedFourth, SundayFirst} \X {TestRules})
        \cup ({TwoDays} \X {StreakUnsetRules}) \cup ({ThreeDaysApart} \X {WindowRules})

\* Four weekday slots and one overflow slot: a matchup of Phase 3 is given
\* up, and a later one is placed by displacement.
LateDisplacement ==
    [EndDate |-> 4, HasOverflowEnd |-> TRUE,
     slots |-> <<Slot(0, WeekdayTime, 1), Slot(2, WeekdayTime, 2),
                 Slot(3, WeekdayTime, 1), Slot(3, WeekdayTime, 2)>>,
     overflow |-> <<Slot(5, SaturdayTime, 1)>>,
     games |-> <<Game(4, 1, "g1"), Game(3, 1, "g2"), Game(2, 4, "g3"), Game(1, 4, "g4")>>]

\* Three placed matchups, each of which has to move for the fourth to fit.
ChainOfThree ==
    [EndDate |-> 7, HasOverflowEnd |-> TRUE,
     slots |-> <<Slot(0, WeekdayTime, 2), Slot(2, WeekdayTime, 2),
                 Slot(3, WeekdayTime, 2), Slot(7, WeekdayTime, 1)>>,
     overflow |-> <<Slot(8, WeekdayTime, 1)>>,
     games |-> <<Game(4, 1, "g1"), Game(3, 1, "g2"), Game(4, 1, "g3"), Game(2, 4, "g4")>>]

\* The inputs in which displacement does most of the work.
DisplaceCases ==
    ({LateDisplacement} \X {TightRules}) \cup ({BlockedFourth, Weekend} \X {TestRules})

\* The inputs in which a call of tryDisplace goes three levels deep.
ChainCases == ({ChainOfThree} \X {TightRules}) \cup ({Weekend} \X {TestRules})

\* The inputs with several rematches, next to inputs that need displacement
\* and the overflow window.
MetricsCases ==
    ({TwoRematches, TripleMeeting} \X {TestRules}) \cup (Layouts \X {TestRules, TightRules})

\* ------------------------------------------------------------ the engine
\* The state after newScheduler, for one of the inputs; draws is the initial
\* value of the rng log.
Start(cases, draws) ==
    /\ \E case \in cases :
         LET lay == case[1] IN
         /\ cfg = [Teams |-> <<1, 2, 3, 4>>, Rules |-> case[2], Guidelines |-> TestGuidelines,
                   Season |-> [StartDate |-> -7, EndDate |-> lay.EndDate,
                               HasOverflowEnd |-> lay.HasOverflowEnd]]
         /\ slots = lay.slots
         /\ overflowSlots = lay.overflow
         /\ games = lay.games
    /\ pc = "run"
    /\ attempt = 0
    /\ cand = newScheduler
    /\ remaining = <<>>
    /\ gi = 0
    /\ p3unscheduled = <<>>
    /\ stack = <<>>
    /\ bestResult = Nil
    /\ bestScore = MaxFloat64
    /\ bestFailure = Nil
    /\ history = <<>>
    /\ firstDraws = draws
    /\ sameDraws = FALSE
    /\ satFull = {}
    /\ result = Nil
    /\ rebuilt = Nil

Init == Start(Cases, Nil)

InitMetrics == Start(MetricsCases, Nil)
InitDisplace == Start(DisplaceCases, Nil)
InitChain == Start(ChainCases, Nil)

\* --- configurations from which the slot lists are generated
OnDate(d, times) ==
    [HasDate |-> TRUE, Date |-> d, HasStartDate |-> FALSE, StartDate |-> 0,
     HasEndDate |-> FALSE, EndDate |-> 0, Times |-> times]

OnRange(from, to, times) ==
    [HasDate |-> FALSE, Date |-> 0, HasStartDate |-> TRUE, StartDate |-> from,
     HasEndDate |-> TRUE, EndDate |-> to, Times |-> times]

Field(name, res) == [Name |-> name, Reservations |-> res]

Season(from, to, blackouts) ==
    [StartDate |-> from, EndDate |-> to, BlackoutDates |-> blackouts,
     HasOverflowEnd |-> FALSE, OverflowEndDate |-> 0]

SeasonWithOverflow(from, to, overflowEnd, blackouts) ==
    [StartDate |-> from, EndDate |-> to, BlackoutDates |-> blackouts,
     HasOverflowEnd |-> TRUE, OverflowEndDate |-> overflowEnd]

TestTimeSlots(holidays) ==
    [Weekday |-> <<WeekdayTime>>, Saturday |-> <<SaturdayTime>>, Sunday |-> <<SundayTime>>,
     HolidayDates |-> holidays]

SlotConfigs ==
    { \* two fields, the second reserved on the first day
      [Season |-> Season(0, 1, <<>>), TimeSlots |-> TestTimeSlots(<<>>),
       Fields |-> <<Field(2, <<OnDate(0, <<>>)>>), Field(1, <<>>)>>,
       games |-> <<Game(3, 4, "g1"), Game(1, 2, "g2"), Game(1, 3, "g3")>>],
      \* a blackout date inside the season, part of the overflow window reserved
      [Season |-> SeasonWithOverflow(0, 3, 7, <<1>>), TimeSlots |-> TestTimeSlots(<<>>),
       Fields |-> <<Field(1, <<OnRange(5, 6, <<>>)>>)>>,
       games |-> <<Game(1, 2, "g1"), Game(1, 3, "g2"), Game(4, 1, "g3")>>],
      \* the second field reserved on every date of the season, no overflow window
      [Season |-> Season(0, 1, <<>>), TimeSlots |-> TestTimeSlots(<<>>),
       Fields |-> <<Field(1, <<>>), Field(2, <<OnRange(0, 1, <<>>)>>)>>,
       games |-> <<Game(3, 4, "g1"), Game(1, 2, "g2"), Game(1, 3, "g3")>>],
      \* the same with an overflow day on which only the second field is free
      [Season |-> SeasonWithOverflow(0, 1, 2, <<>>), TimeSlots |-> TestTimeSlots(<<>>),
       Fields |-> <<Field(1, <<OnDate(2, <<WeekdayTime>>)>>), Field(2, <<OnRange(0, 1, <<>>)>>)>>,
       games |-> <<Game(3, 4, "g1"), Game(1, 2, "g2"), Game(1, 3, "g3")>>],
      \* a Sunday, a holiday Monday and a Tuesday; the second field reserved
      \* at the Sunday time on all three days
      [Season |-> Season(6, 8, <<>>), TimeSlots |-> TestTimeSlots(<<7>>),
       Fields |-> <<Field(1, <<>>), Field(2, <<OnRange(6, 8, <<SundayTime>>)>>)>>,
       games |-> <<Game(1, 2, "g1"), Game(3, 4, "g2"), Game(2, 1, "g3")>>],
      \* a Saturday on two fields, the Sunday blacked out, a Monday, one overflow day
      [Season |-> SeasonWithOverflow(5, 7, 8, <<6>>),
       TimeSlots |-> [TestTimeSlots(<<>>) EXCEPT !.Saturday = <<SaturdayLateTime, SaturdayTime>>],
       Fields |-> <<Field(1, <<>>), Field(2, <<OnRange(7, 8, <<>>)>>)>>,
       games |-> <<Game(1, 2, "g1"), Game(3, 4, "g2"), Game(1, 3, "g3")>>],
      \* one field, the weekday list names its time twice
      [Season |-> Season(0, 1, <<>>),
       TimeSlots |-> [TestTimeSlots(<<>>) EXCEPT !.Weekday = <<WeekdayTime, WeekdayTime>>],
       Fields |-> <<Field(1, <<>>)>>,
       games |-> <<Game(3, 4, "g1"), Game(1, 2, "g2"), Game(1, 3, "g3")>>] }

\* The program from its configuration on: the slot lists are still to be generated.
InitSlots ==
    /\ \E sc \in SlotConfigs, rules \in {TestRules, TightRules} :
         /\ cfg = [Teams |-> <<1, 2, 3, 4>>, Rules |-> rules, Guidelines |-> TestGuidelines,
                   Season |-> sc.Season, TimeSlots |-> sc.TimeSlots, Fields |-> sc.Fields]
         /\ games = sc.games
    /\ slots = <<>>
    /\ overflowSlots = <<>>
    /\ pc = "generate"
    /\ attempt = 0
    /\ cand = newScheduler
    /\ remaining = <<>>
    /\ gi = 0
    /\ p3unscheduled = <<>>
    /\ stack = <<>>
    /\ bestResult = Nil
    /\ bestScore = MaxFloat64
    /\ bestFailure = Nil
    /\ history = <<>>
    /\ firstDraws = Nil
    /\ sameDraws = FALSE
    /\ satFull = {}
    /\ result = Nil
    /\ rebuilt = Nil

SundayLateTime == 1140

\* One game per time slot, the other rules as in TestRules.
CapOneRules == [TestRules EXCEPT !.MaxGamesPerTimeslot = 1]

\* Three Sundays and three meetings of one pair.
ThreeSundays ==
    [EndDate |-> 20, HasOverflowEnd |-> FALSE,
     slots |-> <<Slot(6, SundayTime, 1), Slot(13, SundayTime, 1), Slot(20, SundayTime, 1)>>,
     overflow |-> <<>>,
     games |-> <<Game(1, 2, "g1"), Game(2, 1, "g2"), Game(1, 2, "g3")>>]

\* A Sunday with two times of day.
TwoTimesSunday ==
    [EndDate |-> 6, HasOverflowEnd |-> FALSE,
     slots |-> <<Slot(6, SundayTime, 1), Slot(6, SundayLateTime, 1)>>,
     overflow |-> <<>>,
     games |-> <<Game(1, 2, "g1"), Game(3, 4, "g2")>>]

\* A Saturday, a Sunday with two venues and a second Sunday.
TwoWeekends ==
    [EndDate |-> 13, HasOverflowEnd |-> FALSE,
     slots |-> <<Slot(5, SaturdayTime, 1), Slot(5, SaturdayTime, 2),
                 Slot(6, SundayTime, 1), Slot(6, SundayTime, 2), Slot(13, SundayTime, 1)>>,
     overflow |-> <<>>,
     games |-> <<Game(1, 2, "g1"), Game(3, 4, "g2"), Game(1, 3, "g3"), Game(2, 4, "g4")>>]

SundayCases ==
    ({ThreeSundays, TwoWeekends, Weekend, TwoDays} \X {TestRules})
        \cup ({TwoTimesSunday} \X {CapOneRules})

InitSundays == Start(SundayCases, Nil)

\* Inputs for the checks of single calls: every kind of rejection of the
\* hard-constraint check, slots of different score, displacement, overflow.
CallCases ==
    (Layouts \X {TestRules, TightRules})
        \cup ({TwoDays} \X {StreakUnsetRules})
        \cup ({Weekend} \X {TestRules})
        \cup ({ThreeDaysApart} \X {WindowRules})

InitCalls == Start(CallCases, Nil)

\* Leagues of three and of four teams with one or two Saturdays: pools with
\* one perfect matching, with none, and with none left for the second
\* Saturday; and a league without Saturdays.
MatchCases ==
    { [teams |-> <<1, 2, 3, 4>>, EndDate |-> 12,
       slots |-> <<Slot(5, SaturdayTime, 1), Slot(5, SaturdayTime, 2),
                   Slot(12, SaturdayTime, 1), Slot(12, SaturdayTime, 2)>>,
       overflow |-> <<>>,
       games |-> <<Game(1, 2, "g1"), Game(3, 4, "g2"), Game(1, 3, "g3")>>],
      [teams |-> <<1, 2, 3, 4>>, EndDate |-> 7,
       slots |-> <<Slot(5, SaturdayTime, 1), Slot(5, SaturdayTime, 2), Slot(7, WeekdayTime, 1)>>,
       overflow |-> <<Slot(8, WeekdayTime, 1)>>,
       games |-> <<Game(1, 2, "g1"), Game(1, 3, "g2"), Game(2, 3, "g3")>>],
      [teams |-> <<1, 2, 3, 4>>, EndDate |-> 7,
       slots |-> <<Slot(5, SaturdayTime, 1), Slot(5, SaturdayTime, 2), Slot(7, WeekdayTime, 1)>>,
       overflow |-> <<Slot(8, WeekdayTime, 1)>>,
       games |-> <<Game(1, 2, "g1"), Game(3, 4, "g2"), Game(2, 1, "g3"), Game(1, 3, "g4")>>],
      [teams |-> <<1, 2, 3, 4>>, EndDate |-> TwoDays.EndDate,
       slots |-> TwoDays.slots, overflow |-> TwoDays.overflow, games |-> TwoDays.games],
      [teams |-> <<1, 2, 3>>, EndDate |-> 7,
       slots |-> <<Slot(5, SaturdayTime, 1), Slot(5, SaturdayTime, 2), Slot(7, WeekdayTime, 1)>>,
       overflow |-> <<>>,
       games |-> <<Game(1, 2, "g1"), Game(1, 3, "g2"), Game(2, 3, "g3")>>] }

\* Schedule on the inputs of MatchCases.
InitMatch ==
    /\ \E mc \in MatchCases :
         /\ cfg = [Teams |-> mc.teams, Rules |-> TestRules, Guidelines |-> TestGuidelines,
                   Season |-> [StartDate |-> -7, EndDate |-> mc.EndDate,
                               HasOverflowEnd |-> mc.overflow # <<>>]]
         /\ slots = mc.slots
         /\ overflowSlots = mc.overflow
         /\ games = mc.games
    /\ pc = "run"
    /\ attempt = 0
    /\ cand = newScheduler
    /\ remaining = <<>>
    /\ gi = 0
    /\ p3unscheduled = <<>>
    /\ stack = <<>>
    /\ bestResult = Nil
    /\ bestScore = MaxFloat64
    /\ bestFailure = Nil
    /\ history = <<>>
    /\ firstDraws = Nil
    /\ sameDraws = FALSE
    /\ satFull = {}
    /\ result = Nil
    /\ rebuilt = Nil

\* The same program with the rng of the first attempt logged, on the inputs
\* whose attempts depend on the shuffle.
ShortWeekend ==
    [EndDate |-> 7, HasOverflowEnd |-> TRUE,
     slots |-> <<Slot(5, SaturdayTime, 1), Slot(5, SaturdayTime, 2), Slot(7, WeekdayTime, 1)>>,
     overflow |-> <<Slot(8, WeekdayTime, 1)>>,
     games |-> <<Game(1, 2, "g1"), Game(3, 4, "g2"), Game(1, 3, "g3")>>]

ReplayLayouts == {lay \in Layouts : Len(lay.games) = 3} \cup {ShortWeekend}
ReplayRuleSets == {TestRules, TightRules}
InitReplay == Start(ReplayLayouts \X ReplayRuleSets, [shuffled |-> <<>>, saturdays |-> <<>>])

inputs == <<cfg, slots, overflowSlots, games>>
rngLog == <<firstDraws, sameDraws>>
best == <<bestResult, bestScore, bestFailure, history>>

\* Variant of BeginAttempt: the candidate of the attempt before is used again.
BeginAttemptKeepsCandidate ==
    /\ pc = "run" /\ attempt < MaxAttempts
    /\ \E shuffled \in Perms(games) :
         /\ remaining' = shuffled
         /\ IF firstDraws = Nil THEN UNCHANGED rngLog
            ELSE IF attempt = 0
            THEN /\ firstDraws' = [shuffled |-> shuffled, saturdays |-> <<>>]
                 /\ sameDraws' = FALSE
            ELSE /\ sameDraws' = (shuffled = firstDraws.shuffled)
                 /\ UNCHANGED firstDraws
    /\ pc' = "phase1"
    /\ UNCHANGED <<inputs, satFull, rebuilt, attempt, cand, gi, p3unscheduled, stack, best, result>>

\* run, loop head: a fresh candidate and a shuffled copy of the games.
BeginAttempt ==
    /\ pc = "run" /\ attempt < MaxAttempts
    /\ \E shuffled \in Perms(games) :
         /\ remaining' = shuffled
         /\ IF firstDraws = Nil THEN UNCHANGED rngLog
            ELSE IF attempt = 0
            THEN /\ firstDraws' = [shuffled |-> shuffled, saturdays |-> <<>>]
                 /\ sameDraws' = FALSE
            ELSE /\ sameDraws' = (shuffled = firstDraws.shuffled)
                 /\ UNCHANGED firstDraws
    /\ cand' = newScheduler
    /\ pc' = "phase1"
    /\ UNCHANGED <<inputs, satFull, rebuilt, attempt, gi, p3unscheduled, stack, best, result>>

\* The Saturdays on which every team has a game.
FullSaturdays(s) ==
    {d \in Range(slotDates(Saturday)) :
        \A i \in DOMAIN AllTeams : PlaysOn(s, AllTeams[i], d)}

\* trySchedule, phase 1.
ScheduleSaturdays ==
    /\ pc = "phase1"
    /\ \E out \in SaturdayOutcomes([s |-> cand, scheduled |-> {}, drawn |-> <<>>],
                                    remaining, 1) :
         /\ cand' = out.s
         /\ remaining' = Unscheduled(remaining, out.scheduled)
         /\ IF firstDraws = Nil THEN UNCHANGED rngLog
            ELSE IF attempt = 0
            THEN /\ firstDraws' = [firstDraws EXCEPT !.saturdays = out.drawn]
                 /\ UNCHANGED sameDraws
            ELSE /\ sameDraws' = (sameDraws /\ out.drawn = firstDraws.saturdays)
                 /\ UNCHANGED firstDraws
    /\ satFull' = FullSaturdays(cand')
    /\ pc' = "phase2"
    /\ UNCHANGED <<inputs, rebuilt, attempt, gi, p3unscheduled, stack, best, result>>

\* trySchedule, phase 2, and the sort that opens phase 3.
ScheduleSundays ==
    /\ pc = "phase2"
    /\ LET out == scheduleSundaysFrom([s |-> cand, scheduled |-> {}], remaining, 1)
       IN /\ cand' = out.s
          /\ remaining' = sortByDifficulty(out.s, Unscheduled(remaining, out.scheduled))
    /\ pc' = "phase3"
    /\ gi' = 1
    /\ p3unscheduled' = <<>>
    /\ UNCHANGED <<inputs, rngLog, satFull, rebuilt, attempt, stack, best, result>>

\* scheduleWithBacktracking: the game is placed directly.
PlaceDirect ==
    /\ pc = "phase3" /\ gi <= Len(remaining)
    /\ assignGame(cand, remaining[gi]).ok
    /\ cand' = assignGame(cand, remaining[gi]).s
    /\ gi' = gi + 1
    /\ UNCHANGED <<inputs, rngLog, satFull, rebuilt, pc, attempt, remaining, p3unscheduled, stack, best, result>>

\* One call of tryDisplaceAtDepth; entry is the scheduler state the call
\* was entered with.
Frame(game, depth) ==
    [game |-> game, depth |-> depth, si |-> 1, stage |-> "scan", victim |-> Nil,
     entry |-> cand]

\* scheduleWithBacktracking: assignGame failed, tryDisplace(game) is entered.
\* Variant of StartDisplace: tryDisplace starts at depth 4.
StartDisplaceDepthFour ==
    /\ pc = "phase3" /\ gi <= Len(remaining)
    /\ ~assignGame(cand, remaining[gi]).ok
    /\ stack' = <<Frame(remaining[gi], 4)>>
    /\ pc' = "displace"
    /\ UNCHANGED <<inputs, rngLog, satFull, rebuilt, attempt, cand, remaining, gi, p3unscheduled, best, result>>

StartDisplace ==
    /\ pc = "phase3" /\ gi <= Len(remaining)
    /\ ~assignGame(cand, remaining[gi]).ok
    /\ stack' = <<Frame(remaining[gi], 3)>>
    /\ pc' = "displace"
    /\ UNCHANGED <<inputs, rngLog, satFull, rebuilt, attempt, cand, remaining, gi, p3unscheduled, best, result>>

Top == stack[Len(stack)]
SetTop(f) == [stack EXCEPT ![Len(stack)] = f]

\* First assignment occupying the slot, 0 when none.
AssignmentAt(s, slot) ==
    LET hit == {i \in DOMAIN s.assignments : s.assignments[i].Slot = slot}
    IN IF hit = {} THEN 0 ELSE SetMin(hit)

\* Displaceable without the test for Sundays.
DisplaceableAnyDay(s, from) ==
    {k \in from..Len(slots) :
        /\ slotKey(slots[k]) \in s.usedSlots
        /\ AssignmentAt(s, slots[k]) # 0}

\* The slots tryDisplaceAtDepth does not skip, from index "from" on.
Displaceable(s, from) ==
    {k \in from..Len(slots) :
        /\ slotKey(slots[k]) \in s.usedSlots
        /\ Weekday(slots[k].Date) # Sunday
        /\ AssignmentAt(s, slots[k]) # 0}

\* tryDisplaceAtDepth: the next occupied slot is found and its occupant evicted.
DisplaceEvict ==
    /\ pc = "displace" /\ Top.stage = "scan"
    /\ Displaceable(cand, Top.si) # {}
    /\ LET k   == SetMin(Displaceable(cand, Top.si))
           idx == AssignmentAt(cand, slots[k])
       IN /\ cand' = unassign(cand, idx)
          /\ stack' = SetTop([Top EXCEPT !.si = k, !.stage = "evicted",
                                         !.victim = cand.assignments[idx]])
    /\ UNCHANGED <<inputs, rngLog, satFull, rebuilt, pc, attempt, remaining, gi, p3unscheduled, best, result>>

\* tryDisplaceAtDepth: the game fits the freed slot and is placed there.
DisplacePlace ==
    /\ pc = "displace" /\ Top.stage = "evicted"
    /\ hardConstraintCheck(cand, Top.game, slots[Top.si]) = "ok"
    /\ cand' = assign(cand, Top.game, slots[Top.si])
    /\ stack' = SetTop([Top EXCEPT !.stage = "placed"])
    /\ UNCHANGED <<inputs, rngLog, satFull, rebuilt, pc, attempt, remaining, gi, p3unscheduled, best, result>>

\* Variant of DisplaceRestore: the scan moves on without putting the
\* evicted game back.
DisplaceRestoreDropsVictim ==
    /\ pc = "displace"
    /\ \/ Top.stage = "evicted" /\ hardConstraintCheck(cand, Top.game, slots[Top.si]) # "ok"
       \/ Top.stage = "restore"
    /\ stack' = SetTop([Top EXCEPT !.si = Top.si + 1, !.stage = "scan", !.victim = Nil])
    /\ UNCHANGED <<inputs, rngLog, satFull, rebuilt, pc, attempt, cand, remaining, gi, p3unscheduled, best, result>>

\* tryDisplaceAtDepth: "s.assign(victim.Game, victim.Slot)", after a failed
\* check or after the chain below was undone; the scan moves on.
DisplaceRestore ==
    /\ pc = "displace"
    /\ \/ Top.stage = "evicted" /\ hardConstraintCheck(cand, Top.game, slots[Top.si]) # "ok"
       \/ Top.stage = "restore"
    /\ cand' = assign(cand, Top.victim.Game, Top.victim.Slot)
    /\ stack' = SetTop([Top EXCEPT !.si = Top.si + 1, !.stage = "scan", !.victim = Nil])
    /\ UNCHANGED <<inputs, rngLog, satFull, rebuilt, pc, attempt, remaining, gi, p3unscheduled, best, result>>

\* tryDisplaceAtDepth: the evicted game finds a slot of its own; every open
\* call returns true and scheduleWithBacktracking moves to the next game.
DisplaceReseat ==
    /\ pc = "displace" /\ Top.stage = "placed"
    /\ assignGame(cand, Top.victim.Game).ok
    /\ cand' = assignGame(cand, Top.victim.Game).s
    /\ stack' = <<>>
    /\ pc' = "phase3"
    /\ gi' = gi + 1
    /\ UNCHANGED <<inputs, rngLog, satFull, rebuilt, attempt, remaining, p3unscheduled, best, result>>

\* tryDisplaceAtDepth: the evicted game has no slot; recurse one level
\* shallower (a call with depth <= 0 returns false at once).
DisplaceRecurse ==
    /\ pc = "displace" /\ Top.stage = "placed"
    /\ ~assignGame(cand, Top.victim.Game).ok
    /\ IF Top.depth - 1 <= 0
       THEN stack' = SetTop([Top EXCEPT !.stage = "undo"])
       ELSE stack' = Append(SetTop([Top EXCEPT !.stage = "waiting"]),
                            Frame(Top.victim.Game, Top.depth - 1))
    /\ UNCHANGED <<inputs, rngLog, satFull, rebuilt, pc, attempt, cand, remaining, gi, p3unscheduled, best, result>>

\* tryDisplaceAtDepth: the chain failed; the game is taken out of the slot again.
DisplaceUndo ==
    /\ pc = "displace" /\ Top.stage = "undo"
    /\ LET idx == AssignmentAt(cand, slots[Top.si])
       IN cand' = IF idx = 0 THEN cand ELSE unassign(cand, idx)
    /\ stack' = SetTop([Top EXCEPT !.stage = "restore"])
    /\ UNCHANGED <<inputs, rngLog, satFull, rebuilt, pc, attempt, remaining, gi, p3unscheduled, best, result>>

\* Variant of DisplaceFail: the game that could not be placed is not recorded.
DisplaceFailForgets ==
    /\ pc = "displace" /\ Top.stage = "scan"
    /\ Displaceable(cand, Top.si) = {}
    /\ IF Len(stack) > 1
       THEN /\ stack' = [SubSeq(stack, 1, Len(stack) - 1) EXCEPT ![Len(stack) - 1].stage = "undo"]
            /\ UNCHANGED <<pc, cand, gi, p3unscheduled>>
       ELSE /\ stack' = <<>>
            /\ cand' = IF cand.stuckOnGame = Nil
                       THEN [cand EXCEPT !.stuckOnGame = remaining[gi]] ELSE cand
            /\ UNCHANGED p3unscheduled
            /\ gi' = gi + 1
            /\ pc' = "phase3"
    /\ UNCHANGED <<inputs, rngLog, satFull, rebuilt, attempt, remaining, best, result>>

\* Variant of DisplaceFail: the scan starts over instead of returning.
DisplaceFailRescans ==
    /\ pc = "displace" /\ Top.stage = "scan"
    /\ Displaceable(cand, Top.si) = {}
    /\ stack' = SetTop([Top EXCEPT !.si = 1])
    /\ UNCHANGED <<inputs, rngLog, satFull, rebuilt, pc, attempt, cand, remaining, gi, p3unscheduled, best, result>>

\* tryDisplaceAtDepth: no slot is left to try, the call returns false, to
\* the call above it or to scheduleWithBacktracking, which records the game.
DisplaceFail ==
    /\ pc = "displace" /\ Top.stage = "scan"
    /\ Displaceable(cand, Top.si) = {}
    /\ IF Len(stack) > 1
       THEN /\ stack' = [SubSeq(stack, 1, Len(stack) - 1) EXCEPT ![Len(stack) - 1].stage = "undo"]
            /\ UNCHANGED <<pc, cand, gi, p3unscheduled>>
       ELSE /\ stack' = <<>>
            /\ cand' = IF cand.stuckOnGame = Nil
                       THEN [cand EXCEPT !.stuckOnGame = remaining[gi]] ELSE cand
            /\ p3unscheduled' = Append(p3unscheduled, remaining[gi])
            /\ gi' = gi + 1
            /\ pc' = "phase3"
    /\ UNCHANGED <<inputs, rngLog, satFull, rebuilt, attempt, remaining, best, result>>

\* scheduleWithBacktracking returns its unscheduled list.
Phase3Done ==
    /\ pc = "phase3" /\ gi > Len(remaining)
    /\ remaining' = p3unscheduled
    /\ pc' = "phase4"
    /\ UNCHANGED <<inputs, rngLog, satFull, rebuilt, attempt, cand, gi, p3unscheduled, stack, best, result>>

\* trySchedule, phase 4.
ScheduleOverflow ==
    /\ pc = "phase4"
    /\ Len(remaining) > 0 /\ Len(overflowSlots) > 0
    /\ LET out == scheduleOverflow([s |-> cand, unscheduled |-> <<>>], remaining, 1)
       IN /\ cand' = out.s
          /\ remaining' = out.unscheduled
    /\ pc' = "end"
    /\ UNCHANGED <<inputs, rngLog, satFull, rebuilt, attempt, gi, p3unscheduled, stack, best, result>>

\* Variant of Better: a later attempt of equal score replaces the earlier one.
BetterOrEqual(score, bestSoFar) == score <= bestSoFar

\* run: "if score < bestScore".
Better(score, bestSoFar) == score < bestSoFar

\* Variant of BetterFailure: the soft score of equally full attempts is not
\* compared.
BetterFailureCountOnly(c, bf) ==
    \/ bf = Nil
    \/ Len(c.assignments) > Len(bf.s.assignments)

\* run: the failed candidate replaces the best failure so far.
BetterFailure(c, bf) ==
    \/ bf = Nil
    \/ Len(c.assignments) > Len(bf.s.assignments)
    \/ /\ Len(c.assignments) = Len(bf.s.assignments)
       /\ softScore(c) < softScore(bf.s)

\* trySchedule returns and run compares the candidate with the best so far.
EndAttempt ==
    /\ \/ pc = "end"
       \/ pc = "phase4" /\ ~(Len(remaining) > 0 /\ Len(overflowSlots) > 0)
    /\ LET c     == [cand EXCEPT !.unscheduled = remaining]
           ok    == Len(c.unscheduled) = 0
           score == softScore(c)
       IN /\ cand' = c
          /\ IF ok
             THEN /\ IF Better(score, bestScore)
                     THEN /\ bestScore' = score
                          /\ bestResult' = [attempt |-> attempt, s |-> c]
                     ELSE UNCHANGED <<bestScore, bestResult>>
                  /\ UNCHANGED bestFailure
             ELSE /\ IF BetterFailure(c, bestFailure)
                     THEN bestFailure' = [attempt |-> attempt, s |-> c]
                     ELSE UNCHANGED bestFailure
                  /\ UNCHANGED <<bestScore, bestResult>>
          /\ history' = Append(history, [ok |-> ok, score |-> score,
                                         assignments |-> c.assignments,
                                         unscheduled |-> c.unscheduled,
                                         stuckOnGame |-> c.stuckOnGame,
                                         sameDraws |-> sameDraws])
    /\ attempt' = attempt + 1
    /\ satFull' = {}
    /\ pc' = "run"
    /\ UNCHANGED <<inputs, rngLog, rebuilt, remaining, gi, p3unscheduled, stack, result>>

buildFailureError(b) ==
    [total        |-> Len(games),
     slotCount    |-> Len(slots),
     scheduled    |-> Len(b.assignments),
     nUnscheduled |-> Len(b.unscheduled),
     firstFailed  |-> b.stuckOnGame,
     unscheduled  |-> b.unscheduled]

\* The scheduler Schedule reads the Result from, once run has returned.
Final == IF bestResult = Nil THEN bestFailure ELSE bestResult

\* run after the loop, and Schedule building the Result.
Finish ==
    /\ pc = "run" /\ attempt = MaxAttempts
    /\ \E keyOrder \in KeyOrders(Final.s) :
         LET built == buildMetrics(Final.s, keyOrder)
         IN result' = [Assignments |-> Final.s.assignments,
                       Warnings    |-> built.warnings,
                       TeamGames   |-> Final.s.teamGames,
                       TeamMetrics |-> built.metrics,
                       from        |-> Final.attempt,
                       err         |-> IF bestResult = Nil
                                       THEN buildFailureError(bestFailure.s) ELSE Nil]
    /\ pc' = "done"
    /\ UNCHANGED <<inputs, rngLog, satFull, rebuilt, attempt, cand, remaining, gi, p3unscheduled, stack, best>>

\* buildMetrics is called once more on the scheduler the Result was read from.
RebuildMetrics ==
    /\ pc = "done" /\ rebuilt = Nil
    /\ \E keyOrder \in KeyOrders(Final.s) : rebuilt' = buildMetrics(Final.s, keyOrder)
    /\ UNCHANGED <<inputs, rngLog, satFull, result, pc, attempt, cand, remaining, gi,
                   p3unscheduled, stack, best>>

\* The command: the slot lists are generated from the configuration and
\* handed to Schedule.
GenerateStep ==
    /\ pc = "generate"
    /\ slots' = GenerateSlots(cfg)
    /\ overflowSlots' = GenerateOverflowSlots(cfg)
    /\ pc' = "run"
    /\ UNCHANGED <<cfg, games, rngLog, satFull, rebuilt, attempt, cand, remaining, gi, p3unscheduled,
                   stack, best, result>>

Next ==
    \/ BeginAttempt
    \/ ScheduleSaturdays
    \/ ScheduleSundays
    \/ PlaceDirect
    \/ StartDisplace
    \/ DisplaceEvict
    \/ DisplacePlace
    \/ DisplaceRestore
    \/ DisplaceReseat
    \/ DisplaceRecurse
    \/ DisplaceUndo
    \/ DisplaceFail
    \/ Phase3Done
    \/ ScheduleOverflow
    \/ EndAttempt
    \/ Finish
    \/ RebuildMetrics

Spec == Init /\ [][Next]_vars

SpecReplay == InitReplay /\ [][Next]_vars

SpecMetrics == InitMetrics /\ [][Next]_vars
SpecDisplace == InitDisplace /\ [][Next]_vars
SpecChain == InitChain /\ [][Next]_vars
SpecMatch == InitMatch /\ [][Next]_vars
SpecSundays == InitSundays /\ [][Next]_vars
SpecCalls == InitCalls /\ [][Next]_vars

\* Schedule has returned and the metrics were rebuilt: the one kind of state
\* in which no step of Next is possible.
Terminal == pc = "done" /\ rebuilt # Nil

\* run is one sequential loop: a step that can be taken is taken.  This is
\* WF_vars(Next), written out: Next is enabled in every state but the
\* Terminal ones, and under [][Next]_vars a step that changes vars is a step
\* of Next.
SpecLive ==
    /\ InitSundays /\ [][Next]_vars
    /\ ([]<>Terminal \/ []<><<TRUE>>_vars)

NextSlots == GenerateStep \/ Next

SpecSlots == InitSlots /\ [][NextSlots]_vars

TypeOK ==
    /\ pc \in {"generate", "run", "phase1", "phase2", "phase3", "displace", "phase4", "end", "done"}
    /\ attempt \in 0..MaxAttempts
    /\ Len(stack) <= 3

\* ------------------------------------------------------------ properties
Returned == result # Nil
Teams == Range(AllTeams)
Involves(a, team) == a.Game.Home = team \/ a.Game.Away = team
GamesOf(as, team) == {i \in DOMAIN as : Involves(as[i], team)}
AllDates == {slots[i].Date : i \in DOMAIN slots} \cup {overflowSlots[i].Date : i \in DOMAIN overflowSlots}
AllTimes == {slots[i].Time : i \in DOMAIN slots} \cup {overflowSlots[i].Time : i \in DOMAIN overflowSlots}

NoDoubleBooking(as) ==
    \A i, j \in DOMAIN as : i # j => slotKey(as[i].Slot) # slotKey(as[j].Slot)

\* C1: in every state of an attempt, the states inside displacement
\* included, and in every returned Result, no two assignments occupy the
\* same (date, time, venue).
C1_NoDoubleBooking ==
    /\ NoDoubleBooking(cand.assignments)
    /\ Returned => NoDoubleBooking(result.Assignments)

\* A displacement has put a game into a slot it freed, next to other games.
C1_Witness ==
    /\ pc = "displace" /\ Top.stage = "placed" /\ Len(stack) = 2
    /\ Len(cand.assignments) >= 2

GamesOnDate(as, team, date) == Cardinality({i \in GamesOf(as, team) : as[i].Slot.Date = date})

\* C2: in every returned Result no team has more assignments on one date
\* than Rules.MaxGamesPerDayPerTeam.
C2_PerDayCap ==
    Returned => \A team \in Teams : \A d \in AllDates :
        GamesOnDate(result.Assignments, team, d) <= cfg.Rules.MaxGamesPerDayPerTeam

DatesOf(as, team) == {as[i].Slot.Date : i \in GamesOf(as, team)}

\* The team plays on each of the n days d, d+1, ..., d+n-1.
RunFrom(as, team, d, n) == \A k \in 0..(n - 1) : d + k \in DatesOf(as, team)

\* The length of the shortest run over the cap; a run is made of dates one
\* day apart, so it has two days or more.
OverCap == IF cfg.Rules.MaxConsecutiveDays < 1 THEN 2 ELSE cfg.Rules.MaxConsecutiveDays + 1

\* C3: in every returned Result no team has a run of dates one day apart
\* that is longer than Rules.MaxConsecutiveDays.
C3_ConsecutiveCap ==
    Returned => \A team \in Teams : \A d \in AllDates :
        ~RunFrom(result.Assignments, team, d, OverCap)

\* A Result in which a team plays exactly the allowed number of days in a
\* row, at least two.
C3_Witness ==
    /\ Returned /\ cfg.Rules.MaxConsecutiveDays >= 2
    /\ \E team \in Teams : \E d \in AllDates :
         RunFrom(result.Assignments, team, d, cfg.Rules.MaxConsecutiveDays)

GamesInWeek(as, team, w) == Cardinality({i \in GamesOf(as, team) : ISOWeek(as[i].Slot.Date) = w})

\* C4: in every returned Result no team has more assignments in one ISO
\* week than Rules.MaxGamesPerWeek.
C4_WeeklyCap ==
    Returned => \A team \in Teams : \A d \in AllDates :
        GamesInWeek(result.Assignments, team, ISOWeek(d)) <= cfg.Rules.MaxGamesPerWeek

\* A Result in which a team has exactly the weekly cap of games in a week
\* and a matchup of that team was left out.
C4_Witness ==
    /\ Returned /\ result.err # Nil
    /\ \E team \in Teams : \E d \in AllDates :
         /\ GamesInWeek(result.Assignments, team, ISOWeek(d)) = cfg.Rules.MaxGamesPerWeek
         /\ \E i \in DOMAIN result.err.unscheduled :
              team \in {result.err.unscheduled[i].Home, result.err.unscheduled[i].Away}

GamesAt(as, d, tm) == Cardinality({i \in DOMAIN as : as[i].Slot.Date = d /\ as[i].Slot.Time = tm})

\* C5: in every returned Result no (date, time) holds more assignments,
\* over all venues, than Rules.MaxGamesPerTimeslot.
C5_TimeslotCap ==
    Returned => \A d \in AllDates : \A tm \in AllTimes :
        GamesAt(result.Assignments, d, tm) <= cfg.Rules.MaxGamesPerTimeslot

\* A Result with a (date, time) filled to the cap although the date has a
\* further venue free at that time.
C5_Witness ==
    /\ Returned
    /\ \E i \in DOMAIN slots :
         /\ GamesAt(result.Assignments, slots[i].Date, slots[i].Time) = cfg.Rules.MaxGamesPerTimeslot
         /\ \A j \in DOMAIN result.Assignments : result.Assignments[j].Slot # slots[i]

GamesInSpan(as, team, d, n) ==
    Cardinality({i \in GamesOf(as, team) : as[i].Slot.Date >= d /\ as[i].Slot.Date < d + n})

\* C6: with Rules.Max3In4Days set, in every returned Result no team has
\* three assignments within 4 consecutive calendar days.
C6_No3In4Days ==
    (Returned /\ cfg.Rules.Max3In4Days) => \A team \in Teams : \A d \in AllDates :
        GamesInSpan(result.Assignments, team, d, 4) < 3

\* With the rule set, a Result in which a team plays twice within 4 days
\* and a third slot within those days stayed empty.
C6_Witness ==
    /\ Returned /\ cfg.Rules.Max3In4Days
    /\ \E team \in Teams : \E d \in AllDates :
         /\ GamesInSpan(result.Assignments, team, d, 4) = 2
         /\ \E i \in DOMAIN slots :
              /\ slots[i].Date >= d /\ slots[i].Date < d + 4
              /\ \A j \in DOMAIN result.Assignments : result.Assignments[j].Slot # slots[i]

Done == pc = "done"
LabelCount(as, label) == Cardinality({i \in DOMAIN as : as[i].Game.Label = label})
PlacesAll(as) == \A k \in DOMAIN games : LabelCount(as, games[k].Label) = 1
OnlyInputGames(as) == \A i \in DOMAIN as : as[i].Game \in Range(games)
Successes == {k \in DOMAIN history : PlacesAll(history[k].assignments)}

\* C7: Schedule returns a nil error exactly when some attempt placed every
\* matchup, and then the Result holds every input matchup in exactly one
\* assignment and no other assignment.
C7_NilErrorIffComplete ==
    Done => /\ (result.err = Nil) <=> (Successes # {})
            /\ result.err = Nil =>
                 /\ PlacesAll(result.Assignments)
                 /\ OnlyInputGames(result.Assignments)
                 /\ Len(result.Assignments) = Len(games)

\* Schedule returned without error although one of the attempts left a
\* matchup unplaced.
C7_Witness ==
    /\ Done /\ result.err = Nil /\ games # <<>>
    /\ \E k \in DOMAIN history : k \notin Successes

\* C8: when no attempt placed every matchup, Schedule returns an error
\* together with a Result holding a failed attempt's assignments; the
\* error's placed count and unplaced list add up to the number of
\* matchups, the unplaced list is not empty and a first stuck matchup is
\* named.
C8_FailureReport ==
    (Done /\ Successes = {}) =>
        /\ result.err # Nil
        /\ result.Assignments = history[result.from + 1].assignments
        /\ result.err.total = Len(games)
        /\ result.err.scheduled = Len(result.Assignments)
        /\ result.err.nUnscheduled = Len(result.err.unscheduled)
        /\ result.err.scheduled + Len(result.err.unscheduled) = Len(games)
        /\ result.err.unscheduled # <<>>
        /\ result.err.firstFailed # Nil

\* A failure whose partial Result holds some of the matchups, after a
\* displacement search was undone.
C8_Witness ==
    /\ Done /\ Successes = {}
    /\ Len(result.Assignments) >= 1
    /\ result.err.unscheduled # <<>>
    /\ overflowSlots = <<>>

\* C9: on failure the matchup named as the first game that failed is in
\* the unplaced list and has no assignment in the partial Result, with or
\* without an overflow slot list.
C9_FirstFailedIsUnplaced ==
    (Done /\ result.err # Nil) =>
        /\ result.err.firstFailed # Nil
        /\ result.err.firstFailed \in Range(result.err.unscheduled)
        /\ LabelCount(result.Assignments, result.err.firstFailed.Label) = 0

\* C10: when some attempt placed every matchup, the Result comes from a
\* successful attempt of minimal softScore, the earliest one of that score.
C10_BestSuccess ==
    (Done /\ Successes # {}) =>
        LET k == result.from + 1
        IN /\ k \in Successes
           /\ result.Assignments = history[k].assignments
           /\ \A j \in Successes :
                /\ history[k].score <= history[j].score
                /\ history[j].score = history[k].score => k <= j

\* Two successful attempts of different score, the later one the better
\* and the one returned.
C10_Witness ==
    /\ Done /\ result.from = 1
    /\ {1, 2} \subseteq Successes
    /\ history[2].score < history[1].score

\* C11: when no attempt placed every matchup, the attempt behind the partial
\* Result has the largest number of assignments of all attempts, and the
\* lowest softScore among the attempts with that number.
C11_BestFailure ==
    (Done /\ Successes = {}) =>
        LET k == result.from + 1
        IN \A j \in DOMAIN history :
             /\ Len(history[j].assignments) <= Len(history[k].assignments)
             /\ Len(history[j].assignments) = Len(history[k].assignments)
                  => history[k].score <= history[j].score

\* Two failed attempts with as many assignments and different scores, the
\* later one the better and the one returned.
C11_Witness ==
    /\ Done /\ Successes = {} /\ result.from = 1
    /\ Len(history[1].assignments) = Len(history[2].assignments)
    /\ history[2].score < history[1].score

\* A later failed attempt with more assignments than the first is returned.
C11_WitnessMore ==
    /\ Done /\ Successes = {} /\ result.from = 1
    /\ Len(history[1].assignments) < Len(history[2].assignments)

\* What an attempt leaves behind when trySchedule returns.
Outcome(k) ==
    <<history[k].ok, history[k].assignments, history[k].unscheduled,
      history[k].stuckOnGame, history[k].score>>

AttemptsIsolated ==
    \A k \in DOMAIN history : history[k].sameDraws => Outcome(k) = Outcome(1)

C13_MetricsRepeatable ==
    rebuilt # Nil =>
        /\ rebuilt.warnings = result.Warnings
        /\ \A i \in DOMAIN AllTeams :
             /\ rebuilt.metrics[i].Games = result.TeamMetrics[i].Games
             /\ rebuilt.metrics[i].Saturday = result.TeamMetrics[i].Saturday
             /\ rebuilt.metrics[i].Sunday = result.TeamMetrics[i].Sunday

Generated == pc # "generate"
SeasonDates == cfg.Season.StartDate..cfg.Season.EndDate
FieldNames == {cfg.Fields[i].Name : i \in DOMAIN cfg.Fields}
ReservationsAt(v) == UNION {Range(cfg.Fields[i].Reservations) :
                               i \in {k \in DOMAIN cfg.Fields : cfg.Fields[k].Name = v}}

\* The reservation covers the date (single date, or a date of its range).
Covers(r, d) ==
    \/ r.HasDate /\ ~r.HasStartDate /\ ~r.HasEndDate /\ r.Date = d
    \/ r.HasStartDate /\ r.HasEndDate /\ r.StartDate <= d /\ d <= r.EndDate

\* The time list of the date's day type.
DayTypeTimes(d) ==
    IF \E i \in DOMAIN cfg.TimeSlots.HolidayDates : cfg.TimeSlots.HolidayDates[i] = d
    THEN Range(cfg.TimeSlots.Sunday)
    ELSE CASE d % 7 = 5 -> Range(cfg.TimeSlots.Saturday)
           [] d % 7 = 6 -> Range(cfg.TimeSlots.Sunday)
           [] OTHER     -> Range(cfg.TimeSlots.Weekday)

OpenTriples ==
    {s \in {Slot(d, tm, v) : d \in SeasonDates,
                             tm \in UNION {DayTypeTimes(e) : e \in SeasonDates},
                             v \in FieldNames} :
        /\ \A i \in DOMAIN cfg.Season.BlackoutDates : cfg.Season.BlackoutDates[i] # s.Date
        /\ s.Time \in DayTypeTimes(s.Date)
        /\ \A r \in ReservationsAt(s.Field) :
             Covers(r, s.Date) => (r.Times # <<>> /\ s.Time \notin Range(r.Times))}

\* The venue has a full-day reservation covering every date of the season.
ReservedAllSeason(v) ==
    \E r \in ReservationsAt(v) : r.Times = <<>> /\ \A d \in SeasonDates : Covers(r, d)

WithoutReservations(v) ==
    [cfg EXCEPT !.Fields = [i \in DOMAIN cfg.Fields |->
        IF cfg.Fields[i].Name = v THEN Field(v, <<>>) ELSE cfg.Fields[i]]]

AssignmentsSeen == Range(cand.assignments) \cup (IF Returned THEN Range(result.Assignments) ELSE {})

UsesSuppliedSlots ==
    \A a \in AssignmentsSeen : a.Slot \in Range(slots) \cup Range(overflowSlots)

OthersStillGenerated(v) ==
    {s \in Range(slots) : s.Field # v}
        = {s \in Range(GenerateSlots(WithoutReservations(v))) : s.Field # v}

\* C15 as stated: every assignment uses a slot of the regular or the
\* overflow list, and when a venue is reserved on every date of the season
\* no assignment is at that venue, while the other venues' slots are all
\* generated.
C15_ReservedVenueNeverUsed ==
    Generated =>
        /\ UsesSuppliedSlots
        /\ \A v \in FieldNames : ReservedAllSeason(v) =>
             /\ \A a \in AssignmentsSeen : a.Slot.Field # v
             /\ OthersStillGenerated(v)

\* C15 amended: every assignment uses a slot of the regular or the overflow
\* list, and when a venue is reserved on every date of the season no
\* assignment is at that venue on a date of the season (the venue's overflow
\* slots after the season can be used), while the other venues' slots are
\* all generated.
C15_ReservedVenueUnusedInSeason ==
    Generated =>
        /\ UsesSuppliedSlots
        /\ \A v \in FieldNames : ReservedAllSeason(v) =>
             /\ \A a \in AssignmentsSeen : a.Slot.Field = v => a.Slot.Date \notin SeasonDates
             /\ OthersStillGenerated(v)

\* A Result with games at the other venue during the season and a game at
\* the reserved venue in the overflow window.
C15_Witness ==
    /\ Done
    /\ \E v \in FieldNames :
         /\ ReservedAllSeason(v)
         /\ \E a \in Range(result.Assignments) : a.Slot.Field = v
         /\ \E a \in Range(result.Assignments) : a.Slot.Field # v /\ a.Slot.Date \in SeasonDates

NoRepeat(seq) == \A i, j \in DOMAIN seq : i # j => seq[i] # seq[j]

\* No time list names a time twice and no two venues share a name.
TimesAndNamesDistinct ==
    /\ NoRepeat(cfg.TimeSlots.Weekday)
    /\ NoRepeat(cfg.TimeSlots.Saturday)
    /\ NoRepeat(cfg.TimeSlots.Sunday)
    /\ NoRepeat([i \in DOMAIN cfg.Fields |-> cfg.Fields[i].Name])

RematchWarnings == SelectSeq(result.Warnings, LAMBDA w : w.kind = "rematch")

MeetingDates(a, b) ==
    {result.Assignments[i].Slot.Date : i \in {k \in DOMAIN result.Assignments :
        {result.Assignments[k].Game.Home, result.Assignments[k].Game.Away} = {a, b}}}

AssignedDates == {result.Assignments[i].Slot.Date : i \in DOMAIN result.Assignments}

\* Consecutive meetings of a pair that are closer than MinDaysBetweenSameMatchup.
CloseMeetings ==
    {m \in (Range(AllTeams) \X Range(AllTeams)) \X (AssignedDates \X AssignedDates) :
        /\ m[1][1] < m[1][2]
        /\ m[2][1] < m[2][2]
        /\ {m[2][1], m[2][2]} \subseteq MeetingDates(m[1][1], m[1][2])
        /\ \A d \in MeetingDates(m[1][1], m[1][2]) : ~(m[2][1] < d /\ d < m[2][2])
        /\ m[2][2] - m[2][1] < cfg.Guidelines.MinDaysBetweenSameMatchup}

Reports(w, m) ==
    /\ {w.teamA, w.teamB} = {m[1][1], m[1][2]}
    /\ w.from = m[2][1]
    /\ w.to = m[2][2]
    /\ w.days = m[2][2] - m[2][1]
    /\ w.min = cfg.Guidelines.MinDaysBetweenSameMatchup

\* C17: the metrics hold exactly one rematch warning for each pair of
\* consecutive meetings of a matchup closer than MinDaysBetweenSameMatchup,
\* naming that pair and gap, none for any other meetings, and the rematch
\* warnings come in non-decreasing order of gap.
C17_RematchWarnings ==
    Returned =>
        /\ \A m \in CloseMeetings :
             Cardinality({i \in DOMAIN RematchWarnings : Reports(RematchWarnings[i], m)}) = 1
        /\ \A i \in DOMAIN RematchWarnings : \E m \in CloseMeetings : Reports(RematchWarnings[i], m)
        /\ \A i, j \in DOMAIN RematchWarnings :
             i < j => RematchWarnings[i].days <= RematchWarnings[j].days

\* One matchup met three times, the later two meetings closer together than
\* the earlier two: two warnings, the smaller gap first.
C17_Witness ==
    /\ Returned
    /\ Len(RematchWarnings) = 2
    /\ RematchWarnings[1].days < RematchWarnings[2].days
    /\ RematchWarnings[1].from = RematchWarnings[2].to

\* --- displacement
\* tryDisplace(game) is about to return false: the outermost call has no
\* slot left to try.
DisplaceReturnsFalse ==
    pc = "displace" /\ Len(stack) = 1 /\ Top.stage = "scan" /\ Displaceable(cand, Top.si) = {}

MapKeys(a, b) == (DOMAIN a) \cup (DOMAIN b)

SameAssignments(a, b) == Range(a.assignments) = Range(b.assignments)
SameUsedSlots(a, b) == a.usedSlots = b.usedSlots
SameTeamDates(a, b) ==
    \A k \in MapKeys(a.teamDates, b.teamDates) :
        MapGet(a.teamDates, k, <<>>) = MapGet(b.teamDates, k, <<>>)
SameTeamGames(a, b) ==
    \A k \in MapKeys(a.teamGames, b.teamGames) :
        MapGet(a.teamGames, k, 0) = MapGet(b.teamGames, k, 0)
SameSlotTimeCnt(a, b) ==
    \A k \in MapKeys(a.slotTimeCnt, b.slotTimeCnt) :
        MapGet(a.slotTimeCnt, k, 0) = MapGet(b.slotTimeCnt, k, 0)
SameMatchupDate(a, b) == a.matchupDate = b.matchupDate

\* C19: whenever tryDisplace(game) returns false, the set of assignments,
\* usedSlots, teamDates, teamGames, slotTimeCnt and matchupDate are as they
\* were when the call was entered.
C19_FailedDisplaceRestores ==
    DisplaceReturnsFalse =>
        /\ SameAssignments(Top.entry, cand)
        /\ SameUsedSlots(Top.entry, cand)
        /\ SameTeamDates(Top.entry, cand)
        /\ SameTeamGames(Top.entry, cand)
        /\ SameSlotTimeCnt(Top.entry, cand)
        /\ SameMatchupDate(Top.entry, cand)

\* The parts of the state other than matchupDate are as they were when the
\* failed call was entered.
RestoredExceptMatchupDate ==
    DisplaceReturnsFalse =>
        /\ SameAssignments(Top.entry, cand)
        /\ SameUsedSlots(Top.entry, cand)
        /\ SameTeamDates(Top.entry, cand)
        /\ SameTeamGames(Top.entry, cand)
        /\ SameSlotTimeCnt(Top.entry, cand)

InAttempt == pc \in {"phase1", "phase2", "phase3", "displace", "phase4", "end"}

PairDates(s, mk) ==
    {s.assignments[i].Slot.Date : i \in {k \in DOMAIN s.assignments :
        normalizeMatchup(s.assignments[k].Game.Home, s.assignments[k].Game.Away) = mk}}

\* C20: in every state of an attempt, matchupDate holds for every pair of
\* teams the latest date among the pair's current assignments, and no date
\* for a pair that has no assignment.
C20_MatchupDateIsLatest ==
    InAttempt =>
        /\ \A mk \in DOMAIN cand.matchupDate :
             /\ PairDates(cand, mk) # {}
             /\ cand.matchupDate[mk] = SetMax(PairDates(cand, mk))
        /\ \A i \in DOMAIN cand.assignments :
             normalizeMatchup(cand.assignments[i].Game.Home, cand.assignments[i].Game.Away)
                 \in DOMAIN cand.matchupDate

\* --- assign and unassign
Unplaced(s) == {g \in Range(games) : \A i \in DOMAIN s.assignments : s.assignments[i].Game # g}
FreeSlots(s) == {sl \in Range(slots) \cup Range(overflowSlots) : slotKey(sl) \notin s.usedSlots}

\* assign(game, slot) immediately followed by unassign of that assignment.
AssignThenUnassign(s, game, slot) == unassign(assign(s, game, slot), Len(s.assignments) + 1)

RestoresAllButMatchupDate(s, game, slot) ==
    LET after == AssignThenUnassign(s, game, slot)
    IN /\ after.usedSlots = s.usedSlots
       /\ \A team \in {game.Home, game.Away} :
            /\ MapGet(after.teamDates, team, <<>>) = MapGet(s.teamDates, team, <<>>)
            /\ MapGet(after.teamGames, team, 0) = MapGet(s.teamGames, team, 0)
       /\ MapGet(after.slotTimeCnt, timeKey(slot), 0) = MapGet(s.slotTimeCnt, timeKey(slot), 0)

RestoresMatchupDate(s, game, slot) ==
    LET after == AssignThenUnassign(s, game, slot)
        mk    == normalizeMatchup(game.Home, game.Away)
    IN /\ (mk \in DOMAIN after.matchupDate) = (mk \in DOMAIN s.matchupDate)
       /\ mk \in DOMAIN s.matchupDate => after.matchupDate[mk] = s.matchupDate[mk]

\* C21: from every state of an attempt, assign(game, slot) of a matchup not
\* yet placed into a free slot, followed at once by unassign of that
\* assignment, leaves usedSlots, both teams' date lists and game counts, the
\* (date, time) count and the pair's matchupDate entry as they were.
C21_AssignUnassignRestores ==
    InAttempt =>
        \A game \in Unplaced(cand), slot \in FreeSlots(cand) :
            RestoresAllButMatchupDate(cand, game, slot) /\ RestoresMatchupDate(cand, game, slot)

\* The same without the matchupDate entry.
AssignUnassignRestoresCounts ==
    InAttempt =>
        \A game \in Unplaced(cand), slot \in FreeSlots(cand) :
            RestoresAllButMatchupDate(cand, game, slot)

\* --- matchups accounted for
Occurrences(seq, x) == Cardinality({i \in DOMAIN seq : seq[i] = x})
PlacedGames(as) == [i \in DOMAIN as |-> as[i].Game]

\* C22: at the end of every attempt each input matchup is in exactly one
\* assignment or once in the unscheduled list, never both; while Phase 3
\* runs, every matchup it has gone past is placed or recorded as
\* unscheduled, whatever happened to the matchups before it.
C22_EveryMatchupAccountedFor ==
    /\ \A k \in DOMAIN history : \A g \in Range(games) :
         Occurrences(PlacedGames(history[k].assignments), g)
             + Occurrences(history[k].unscheduled, g) = 1
    /\ pc = "phase3" =>
         \A i \in 1..(gi - 1) :
             Occurrences(PlacedGames(cand.assignments), remaining[i])
                 + Occurrences(p3unscheduled, remaining[i]) = 1

\* Phase 3 is through: a matchup is recorded as unscheduled and a matchup
\* that came after it in Phase 3 is placed.
C22_Witness ==
    /\ pc = "phase3" /\ gi > Len(remaining)
    /\ \E i, j \in DOMAIN remaining :
         /\ i < j
         /\ Occurrences(p3unscheduled, remaining[i]) = 1
         /\ Occurrences(PlacedGames(cand.assignments), remaining[j]) = 1

\* --- overflow as the last resort
\* The moments at which scheduleOverflow places a game: the scheduler state
\* just before the assign, and the game.
RECURSIVE OverflowPlacements(_, _, _)
OverflowPlacements(s, gs, k) ==
    IF k > Len(gs) THEN {}
    ELSE LET legal == LegalSlots(s, gs[k], overflowSlots, DOMAIN overflowSlots)
         IN IF legal = {} THEN OverflowPlacements(s, gs, k + 1)
            ELSE {[s |-> s, game |-> gs[k]]}
                 \cup OverflowPlacements(assign(s, gs[k], overflowSlots[SetMin(legal)]), gs, k + 1)

ReseatAfterFailure ==
    /\ pc = "displace" /\ p3unscheduled # <<>>
    /\ Top.stage = "placed" /\ assignGame(cand, Top.victim.Game).ok

\* --- Saturdays
\* trySchedule is about to return: the attempt's outcome is fixed.
AttemptEnds ==
    \/ pc = "end"
    \/ pc = "phase4" /\ ~(Len(remaining) > 0 /\ Len(overflowSlots) > 0)

\* C24: if Phase 1 placed a full perfect matching on a Saturday, then at the
\* end of that attempt every team still has an assignment on that Saturday.
C24_FullSaturdaysStayFull ==
    AttemptEnds => satFull \subseteq FullSaturdays(cand)

\* An attempt ends with a Saturday that Phase 1 filled, after Phase 3 tried
\* displacement for a matchup, Saturday games among the candidates, and
\* gave the matchup up.
C24_Witness ==
    /\ AttemptEnds
    /\ satFull # {}
    /\ p3unscheduled # <<>>
    /\ Len(cand.assignments) > Len(AllTeams) \div 2

\* --- perfect matchings
\* The calls of findPerfectMatch scheduleSaturdays makes, over the outcomes of
\* its shuffles: the scheduled set and the scheduler before the call, the
\* match it returned, and both after the Saturday's loop over the match.
RECURSIVE SaturdayCalls(_, _, _)
SaturdayCalls(st, pool, k) ==
    IF k > Len(slotDates(Saturday)) THEN {}
    ELSE UNION {
           LET match == findPerfectMatch(pool, shuffled)
               next  == IF match = NoMatch THEN st
                        ELSE PlaceMatch(st, pool, match, 1, slotDates(Saturday)[k])
           IN {[scheduled |-> st.scheduled, s |-> st.s, match |-> match,
                scheduledAfter |-> next.scheduled, sAfter |-> next.s]}
              \cup SaturdayCalls(next, pool, k + 1)
           : shuffled \in Perms(UnusedIndices(pool, st.scheduled))}

Phase1Calls == SaturdayCalls([s |-> cand, scheduled |-> {}, drawn |-> <<>>], remaining, 1)

TeamsOf(g) == {g.Home, g.Away}

\* The match is made of needed distinct unscheduled matchups, pairwise team-disjoint.
DisjointUnscheduled(c, pool) ==
    /\ Len(c.match) = Len(AllTeams) \div 2
    /\ \A i \in DOMAIN c.match : c.match[i] \in DOMAIN pool /\ c.match[i] \notin c.scheduled
    /\ \A i, j \in DOMAIN c.match :
         i # j => c.match[i] # c.match[j] /\ TeamsOf(pool[c.match[i]]) \cap TeamsOf(pool[c.match[j]]) = {}

TimesCovered(c, pool, team) ==
    Cardinality({i \in DOMAIN c.match : team \in TeamsOf(pool[c.match[i]])})

C25_WitnessOdd ==
    /\ pc = "phase1"
    /\ Len(AllTeams) = 3
    /\ \E c \in Phase1Calls : c.match # NoMatch

\* The sets of needed pairwise team-disjoint matchups the unscheduled pool holds.
DisjointSets(pool, scheduled) ==
    {S \in SUBSET (DOMAIN pool \ scheduled) :
        /\ Cardinality(S) = Len(AllTeams) \div 2
        /\ \A i, j \in S : i # j => TeamsOf(pool[i]) \cap TeamsOf(pool[j]) = {}}

\* C26: findPerfectMatch returns no matching only if the unscheduled pool
\* holds no len(teams)/2 pairwise team-disjoint matchups; Phase 1 then places
\* nothing on that Saturday and the set of scheduled matchups is unchanged.
C26_NoMatchOnlyIfNoneExists ==
    pc = "phase1" =>
        \A c \in Phase1Calls : c.match = NoMatch =>
            /\ DisjointSets(remaining, c.scheduled) = {}
            /\ c.sAfter = c.s
            /\ c.scheduledAfter = c.scheduled

\* Phase 1 is about to run and findPerfectMatch will return no matching from
\* a pool that still holds len(teams)/2 matchups or more.
C26_Witness ==
    /\ pc = "phase1"
    /\ \E c \in Phase1Calls :
         /\ c.match = NoMatch
         /\ Cardinality(DOMAIN remaining \ c.scheduled) >= Len(AllTeams) \div 2

\* --- Phase 2
\* The (matchup, slot) pair scheduleSundays picks among the candidates.
BestSundayPick(st, pool, cands) ==
    CHOOSE c \in cands : \A d \in cands :
        \/ SundayScore(st, pool, c) < SundayScore(st, pool, d)
        \/ /\ SundayScore(st, pool, c) = SundayScore(st, pool, d)
           /\ (c[1] < d[1] \/ (c[1] = d[1] /\ c[2] <= d[2]))

\* The placements of scheduleSundays on one date: the state before, the
\* matchup and the slot, the state after.
RECURSIVE SundayDatePlacements(_, _, _, _, _)
SundayDatePlacements(st, pool, sun, gamesThisSunday, maxGames) ==
    LET cands == SundayCandidates(st, pool, sun)
    IN IF gamesThisSunday >= maxGames \/ cands = {} THEN {}
       ELSE LET pick == BestSundayPick(st, pool, cands)
                next == [s |-> assign(st.s, pool[pick[1]], slots[pick[2]]),
                         scheduled |-> st.scheduled \cup {pick[1]}]
            IN {[st |-> st, game |-> pool[pick[1]], slot |-> slots[pick[2]], after |-> next]}
               \cup SundayDatePlacements(next, pool, sun, gamesThisSunday + 1, maxGames)

\* The state in which scheduleSundays leaves each of its dates.
RECURSIVE SundayDateEnds(_, _, _)
SundayDateEnds(st, pool, k) ==
    IF k > Len(slotDates(Sunday)) THEN {}
    ELSE LET sun == slotDates(Sunday)[k]
             availableSlots == Cardinality({i \in slotsForDate(sun) :
                                   slotKey(slots[i]) \notin st.s.usedSlots})
             maxGames == IF availableSlots > cfg.Rules.MaxGamesPerTimeslot
                         THEN cfg.Rules.MaxGamesPerTimeslot ELSE availableSlots
             next == SundayPicks(st, pool, sun, 0, maxGames)
         IN {[sun |-> sun, before |-> st, after |-> next,
              placements |-> SundayDatePlacements(st, pool, sun, 0, maxGames)]}
            \cup SundayDateEnds(next, pool, k + 1)

Phase2Dates == SundayDateEnds([s |-> cand, scheduled |-> {}], remaining, 1)
Phase2Placements == UNION {d.placements : d \in Phase2Dates}

SundaySpread(s) ==
    LET suns == {sundayGames(s, AllTeams[i]) : i \in DOMAIN AllTeams}
    IN SetMax(suns) - SetMin(suns)

\* C27: Phase 2 never places a matchup one of whose teams has a Sunday count
\* of the league minimum plus 2 or more; after every placement of Phase 2,
\* and at its end, the largest and the smallest Sunday count differ by at
\* most 2.
C27_SundayCeiling ==
    pc = "phase2" =>
        /\ \A m \in Phase2Placements :
             /\ sundayGames(m.st.s, m.game.Home) < minSundayGames(m.st.s) + 2
             /\ sundayGames(m.st.s, m.game.Away) < minSundayGames(m.st.s) + 2
             /\ SundaySpread(m.after.s) <= 2
        /\ SundaySpread(scheduleSundaysFrom([s |-> cand, scheduled |-> {}], remaining, 1).s) <= 2

\* Phase 2 is about to run, will bring a team to the ceiling, and will leave
\* a matchup of that team out although a Sunday slot stays free for it.
C27_Witness ==
    /\ pc = "phase2"
    /\ \E m \in Phase2Placements : SundaySpread(m.after.s) = 2
    /\ LET out == scheduleSundaysFrom([s |-> cand, scheduled |-> {}], remaining, 1)
       IN \E i \in DOMAIN remaining \ out.scheduled :
            /\ sundayGames(out.s, remaining[i].Home) >= minSundayGames(out.s) + 2
            /\ \E j \in DOMAIN slots :
                 /\ Weekday(slots[j].Date) = Sunday
                 /\ LegalSlots(out.s, remaining[i], slots, {j}) # {}

\* The number of games the free slots of a date can hold under the
\* per-timeslot cap, counted over the date's times of day.
DateCapacity(s, date) ==
    LET free(tm) == {i \in slotsForDate(date) :
                        slots[i].Time = tm /\ slotKey(slots[i]) \notin s.usedSlots}
        room(tm) == cfg.Rules.MaxGamesPerTimeslot - MapGet(s.slotTimeCnt, <<date, tm>>, 0)
        holds(tm) == IF room(tm) <= 0 THEN 0
                     ELSE IF Cardinality(free(tm)) < room(tm) THEN Cardinality(free(tm))
                     ELSE room(tm)
        times == {slots[i].Time : i \in slotsForDate(date)}
    IN SumOver([tm \in times |-> holds(tm)], times)

\* C28: on each Sunday Phase 2 places matchups until no legal pick is left
\* under the fairness ceiling or the date's capacity is used up, the
\* capacity being what the date's free slots hold under the per-timeslot
\* cap over all of the date's times of day.
C28_SundayFilledToCapacity ==
    pc = "phase2" =>
        \A d \in Phase2Dates :
            \/ SundayCandidates(d.after, remaining, d.sun) = {}
            \/ Cardinality(d.after.scheduled \ d.before.scheduled) >= DateCapacity(d.before.s, d.sun)

\* --- displacement and Sundays
SundayAssignments(s) ==
    {s.assignments[i] : i \in {j \in DOMAIN s.assignments :
                                  Weekday(s.assignments[j].Slot.Date) = Sunday}}

\* C29: no step of an attempt takes an assignment on a Sunday away or moves
\* it, so every assignment made on a Sunday is there, in its slot, when the
\* attempt ends.
C29_SundayAssignmentsStay ==
    [][(pc \in {"phase1", "phase2", "phase3", "displace", "phase4"})
           => (SundayAssignments(cand) \subseteq SundayAssignments(cand'))]_vars

\* A call of tryDisplace has evicted a matchup while a Sunday slot is taken.
C29_Witness ==
    /\ pc = "displace"
    /\ Top.stage = "evicted"
    /\ SundayAssignments(cand) # {}

\* --- depth of displacement
SlotOf(s, game) ==
    {s.assignments[i].Slot : i \in {j \in DOMAIN s.assignments : s.assignments[j].Game = game}}

PlacedBefore(s) == {s.assignments[i].Game : i \in DOMAIN s.assignments}

MovedBy(before, after) == {g \in PlacedBefore(before) : SlotOf(after, g) # SlotOf(before, g)}

\* The scheduler a successful call of tryDisplace leaves, in the state in
\* which its last evicted matchup is about to find a slot of its own.
DisplaceSucceeds == pc = "displace" /\ Top.stage = "placed" /\ assignGame(cand, Top.victim.Game).ok
AfterDisplace == assignGame(cand, Top.victim.Game).s

\* C30: a call of tryDisplace nests at most 3 evictions; when it succeeds
\* the new matchup is placed, every matchup placed before the call is still
\* placed, and at most 3 of them are in another slot than before the call.
C30_AtMostThreeMoved ==
    /\ pc = "displace" => Len(stack) <= 3
    /\ DisplaceSucceeds =>
         LET before == stack[1].entry
             after  == AfterDisplace
         IN /\ SlotOf(after, stack[1].game) # {}
            /\ \A g \in PlacedBefore(before) : SlotOf(after, g) # {}
            /\ Cardinality(MovedBy(before, after)) <= 3
            /\ Len(after.assignments) = Len(before.assignments) + 1

\* A call of tryDisplace succeeds at its third level and has moved three matchups.
C30_Witness ==
    /\ DisplaceSucceeds
    /\ Len(stack) = 3
    /\ Cardinality(MovedBy(stack[1].entry, AfterDisplace)) = 3

\* --- the hard check
AllSlots == Range(slots) \cup Range(overflowSlots)
AllGames == Range(games)

\* The dates of a team's assignments with one more date.
DatesWith(s, team, date) == DatesOf(s.assignments, team) \cup {date}

\* The team has a run of n days in a row once the date is added.
RunWith(s, team, date, n) ==
    \E d \in (date - n + 1)..date : \A k \in 0..(n - 1) : d + k \in DatesWith(s, team, date)

AssignmentsNear(s, team, date, days) ==
    {i \in GamesOf(s.assignments, team) :
        Abs(s.assignments[i].Slot.Date - date) <= days}

Accepts(s, game, slot) ==
    /\ Cardinality({i \in DOMAIN s.assignments :
           /\ s.assignments[i].Slot.Date = slot.Date
           /\ s.assignments[i].Slot.Time = slot.Time}) < cfg.Rules.MaxGamesPerTimeslot
    /\ \A team \in TeamsOf(game) :
         /\ slot.Date \notin DatesOf(s.assignments, team)
         /\ ~RunWith(s, team, slot.Date, OverCap)
         /\ Cardinality({i \in GamesOf(s.assignments, team) :
                ISOWeek(s.assignments[i].Slot.Date) = ISOWeek(slot.Date)}) < cfg.Rules.MaxGamesPerWeek
         /\ cfg.Rules.Max3In4Days => Cardinality(AssignmentsNear(s, team, slot.Date, 3)) < 2

\* C31: hardConstraintCheck accepts a matchup and a slot exactly when the
\* slot's (date, time) count is below MaxGamesPerTimeslot, neither team has
\* an assignment on the date, the date makes no run of days in a row (two
\* or more) longer than MaxConsecutiveDays for either team, each team has fewer than
\* MaxGamesPerWeek assignments in the date's week and, with Max3In4Days set,
\* fewer than 2 assignments within 3 days of the date.
C31_HardCheckAccepts ==
    InAttempt =>
        \A game \in AllGames : \A slot \in AllSlots :
            (hardConstraintCheck(cand, game, slot) = "ok") <=> Accepts(cand, game, slot)

\* Within an attempt the check accepts one candidate and turns others down
\* for the run of days, for the week and for the 3-in-4-days window.
C31_Witness ==
    /\ InAttempt
    /\ \E game \in AllGames : \E slot \in AllSlots : hardConstraintCheck(cand, game, slot) = "ok"
    /\ \E game \in AllGames : \E slot \in AllSlots :
         hardConstraintCheck(cand, game, slot) = "rejectConsecutiveDays"

C31_WitnessWindow ==
    /\ InAttempt
    /\ \E game \in AllGames : \E slot \in AllSlots :
         hardConstraintCheck(cand, game, slot) = "reject3In4Days"

C31_WitnessWeek ==
    /\ InAttempt
    /\ \E game \in AllGames : \E slot \in AllSlots :
         hardConstraintCheck(cand, game, slot) = "rejectMaxWeekGames"

\* --- the rematch term
\* The dates on which the pair of the game meets in the scheduler.
Meetings(s, game) ==
    {s.assignments[i].Slot.Date : i \in {j \in DOMAIN s.assignments :
        TeamsOf(s.assignments[j].Game) = TeamsOf(game)}}

\* The candidates scoreSlot is called for: unused slots that pass the hard check.
Scored(s, game, slot) ==
    slotKey(slot) \notin s.usedSlots /\ hardConstraintCheck(s, game, slot) = "ok"

\* C32: the rematch term of scoreSlot is 5 x (MinDaysBetweenSameMatchup - g)
\* when the nearest meeting of the pair is g days from the candidate date
\* and g is below the minimum, and 0 when every meeting of the pair is the
\* minimum or more away, before or after the date.
C32_RematchTerm ==
    InAttempt =>
        \A game \in AllGames : \A slot \in Range(slots) :
            (game \notin PlacedBefore(cand) /\ Scored(cand, game, slot)) =>
                LET gaps    == {Abs(slot.Date - d) : d \in Meetings(cand, game)}
                    minDays == cfg.Guidelines.MinDaysBetweenSameMatchup
                IN rematchTerm(cand, game, slot) =
                       IF gaps # {} /\ SetMin(gaps) < minDays
                       THEN 5 * (minDays - SetMin(gaps)) * ScoreScale
                       ELSE 0

\* --- overflow penalty and warning
\* The assignments that use a slot of the overflow list.
InOverflow(as) == {i \in DOMAIN as : as[i].Slot \in Range(overflowSlots)}
OverflowDatesOf(as) == {as[i].Slot.Date : i \in InOverflow(as)}
PenaltyFor(as) == 1000 * Cardinality(OverflowDatesOf(as)) + 100 * Cardinality(InOverflow(as))

OverflowWarnings(ws) == {i \in DOMAIN ws : ws[i].kind = "overflow"}

\* C33: an attempt with assignments in overflow slots gets 1000 per overflow
\* date and 100 per overflow game in softScore; a Result with such
\* assignments has exactly one overflow warning, with the number of overflow
\* games, of overflow dates and the latest overflow date, and a Result
\* without them has no overflow warning.
C33_OverflowPenaltyAndWarning ==
    /\ pc = "end" =>
         /\ overflowPenalty(cand) = PenaltyFor(cand.assignments)
         /\ softScore(cand) >= PenaltyFor(cand.assignments)
    /\ \A n \in DOMAIN history : history[n].score >= PenaltyFor(history[n].assignments)
    /\ Returned =>
         LET as == result.Assignments
             ow == OverflowWarnings(result.Warnings)
         IN IF InOverflow(as) = {} THEN ow = {}
            ELSE /\ Cardinality(ow) = 1
                 /\ \A i \in ow :
                      /\ result.Warnings[i].games = Cardinality(InOverflow(as))
                      /\ result.Warnings[i].days = Cardinality(OverflowDatesOf(as))
                      /\ result.Warnings[i].through = SetMax(OverflowDatesOf(as))

\* A Result with an assignment in an overflow slot next to regular ones.
C33_Witness ==
    /\ Returned
    /\ InOverflow(result.Assignments) # {}
    /\ InOverflow(result.Assignments) # DOMAIN result.Assignments

\* --- scoring and warnings
WarningsOfKind(ws, kind) == {i \in DOMAIN ws : ws[i].kind = kind}

\* C34: at the end of an attempt the 3-in-4-days penalty of softScore is 10
\* times the number of 3-in-4 warnings buildMetrics gives, and the rematch
\* penalty of softScore is positive exactly when buildMetrics gives a
\* rematch warning.
C34_ScoreAndWarningsAgree ==
    AttemptEnds =>
        \A keyOrder \in KeyOrders(cand) :
            LET ws == buildMetrics(cand, keyOrder).warnings
            IN /\ threeInFourPenalty(cand) = 10 * Cardinality(WarningsOfKind(ws, "3in4"))
               /\ (rematchPenalty(cand) > 0) <=> (WarningsOfKind(ws, "rematch") # {})

\* An attempt ends with a 3-in-4 warning and a rematch warning.
C34_Witness ==
    /\ AttemptEnds
    /\ threeInFourPenalty(cand) > 0
    /\ rematchPenalty(cand) > 0

\* --- softScore and the way to a state
\* The state a displacement search started from (the first call's frame
\* keeps it) and the state it has now.
SearchEntry == stack[1].entry

\* C35: two states of an attempt with the same set of assignments have the
\* same softScore, whatever was assigned and taken back on the way: the state
\* a displacement search has reached against the state it started from, and
\* the end of one attempt against the end of another.
C35_ScoreOfAssignments ==
    /\ \A i, j \in DOMAIN history :
           Range(history[i].assignments) = Range(history[j].assignments)
               => history[i].score = history[j].score
    /\ (pc = "displace" /\ stack # <<>>)
           => (Range(cand.assignments) = Range(SearchEntry.assignments)
                  => softScore(cand) = softScore(SearchEntry))

\* --- assignGame
\* Indices of regular slots that are unused and which the game may take, by
\* the conditions of C31.
Open(s, game) ==
    {i \in DOMAIN slots : slotKey(slots[i]) \notin s.usedSlots /\ Accepts(s, game, slots[i])}

\* C36: assignGame places the game exactly when some unused regular slot passes
\* the hard-constraint check; the slot taken has the least scoreSlot among
\* those slots and is the earliest of the list with that score; nothing else
\* of the assignment list changes, and a call that returns false leaves the
\* state as it was.
C36_AssignGameTakesBestSlot ==
    InAttempt =>
        \A game \in AllGames :
            LET out == assignGame(cand, game)
                n   == Len(out.s.assignments)
            IN /\ out.ok <=> (Open(cand, game) # {})
               /\ ~out.ok => out.s = cand
               /\ out.ok =>
                      /\ n = Len(cand.assignments) + 1
                      /\ SubSeq(out.s.assignments, 1, n - 1) = cand.assignments
                      /\ out.s.assignments[n].Game = game
                      /\ \E i \in Open(cand, game) :
                             /\ out.s.assignments[n].Slot = slots[i]
                             /\ \A j \in Open(cand, game) :
                                    scoreSlot(cand, game, slots[i]) <= scoreSlot(cand, game, slots[j])
                             /\ \A j \in Open(cand, game) :
                                    j < i => scoreSlot(cand, game, slots[i]) < scoreSlot(cand, game, slots[j])

\* A game with two open slots of different scores whose better slot is the
\* later one, and in another case a game with two open slots of equal score.
C36_Witness ==
    /\ pc = "phase3" /\ gi <= Len(remaining)
    /\ \E i, j \in Open(cand, remaining[gi]) :
           /\ i < j
           /\ scoreSlot(cand, remaining[gi], slots[j]) < scoreSlot(cand, remaining[gi], slots[i])
           /\ assignGame(cand, remaining[gi]).s.assignments[Len(cand.assignments) + 1].Slot = slots[j]

C36_WitnessTie ==
    /\ pc = "phase3" /\ gi <= Len(remaining)
    /\ \E i, j \in Open(cand, remaining[gi]) :
           /\ i < j
           /\ scoreSlot(cand, remaining[gi], slots[j]) = scoreSlot(cand, remaining[gi], slots[i])
           /\ assignGame(cand, remaining[gi]).s.assignments[Len(cand.assignments) + 1].Slot = slots[i]

C36_WitnessNoSlot ==
    /\ pc = "phase3" /\ gi <= Len(remaining)
    /\ cand.assignments # <<>>
    /\ ~assignGame(cand, remaining[gi]).ok

\* --- Phase 4
\* First fit over assignment lists: each game in turn goes to the first slot
\* of the overflow list that no assignment holds and that the conditions of
\* C31 allow; a game without such a slot is left.
RECURSIVE FirstFit(_, _, _, _)
FirstFit(as, gs, k, left) ==
    IF k > Len(gs) THEN [assignments |-> as, left |-> left]
    ELSE LET free == {i \in DOMAIN overflowSlots :
                         /\ \A a \in DOMAIN as : as[a].Slot # overflowSlots[i]
                         /\ Accepts([assignments |-> as], gs[k], overflowSlots[i])}
         IN IF free = {}
            THEN FirstFit(as, gs, k + 1, Append(left, gs[k]))
            ELSE FirstFit(Append(as, [Slot |-> overflowSlots[SetMin(free)], Game |-> gs[k]]),
                          gs, k + 1, left)

\* C37: Phase 4 takes the matchups Phase 3 left unscheduled, in order, and
\* puts each into the first overflow slot that is unused and passes the
\* hard-constraint check; the assignments made before stay where they are; a
\* matchup without such a slot stays unscheduled and the attempt fails.
C37_OverflowFirstFit ==
    [][ /\ pc = "phase4" => remaining = p3unscheduled
        /\ (pc = "phase4" /\ pc' = "end") =>
               LET fit == FirstFit(cand.assignments, remaining, 1, <<>>)
               IN /\ cand'.assignments = fit.assignments
                  /\ remaining' = fit.left
        /\ (AttemptEnds /\ pc' = "run") =>
               /\ history'[Len(history')].unscheduled = remaining
               /\ history'[Len(history')].ok <=> (remaining = <<>>) ]_vars

\* Phase 4 has put a game into the first of two overflow slots that were both
\* open to it, and has left another game unscheduled.
C37_Witness ==
    /\ pc = "end"
    /\ Len(overflowSlots) > 1
    /\ \E i \in DOMAIN cand.assignments :
           /\ cand.assignments[i].Slot = overflowSlots[1]
           /\ Accepts([assignments |-> SubSeq(cand.assignments, 1, i - 1)],
                      cand.assignments[i].Game, overflowSlots[2])
    /\ \A i \in DOMAIN cand.assignments : cand.assignments[i].Slot # overflowSlots[2]

C37_WitnessLeft ==
    /\ pc = "end"
    /\ remaining # <<>>
    /\ \E i \in DOMAIN cand.assignments : cand.assignments[i].Slot \in Range(overflowSlots)

\* --- the derived structures
\* The assignments at a date and time.
AtTime(s, tk) == {i \in DOMAIN s.assignments : timeKey(s.assignments[i].Slot) = tk}

\* C38: in every state of an attempt usedSlots is the set of the assigned
\* slots; each team's date list is ascending and holds each date as often as
\* the team has assignments on it; each team's game count is the length of
\* its date list; each (date, time) count is the number of assignments at
\* that date and time.
C38_DerivedStructuresAgree ==
    InAttempt =>
        /\ cand.usedSlots = {slotKey(cand.assignments[i].Slot) : i \in DOMAIN cand.assignments}
        /\ \A team \in Range(AllTeams) \cup UNION {TeamsOf(g) : g \in AllGames} :
               LET dates == MapGet(cand.teamDates, team, <<>>)
               IN /\ \A k \in 2..Len(dates) : dates[k - 1] <= dates[k]
                  /\ \A d \in Range(dates) \cup DatesOf(cand.assignments, team) :
                         Cardinality({k \in DOMAIN dates : dates[k] = d})
                             = GamesOnDate(cand.assignments, team, d)
                  /\ MapGet(cand.teamGames, team, 0) = Len(dates)
        /\ \A tk \in DOMAIN cand.slotTimeCnt \cup {timeKey(sl) : sl \in AllSlots} :
               MapGet(cand.slotTimeCnt, tk, 0) = Cardinality(AtTime(cand, tk))

\* Inside a displacement search, after an eviction, a team holds two dates
\* of which the later was assigned first.
C38_Witness ==
    /\ pc = "displace"
    /\ \E f \in Range(stack) : f.stage \in {"evicted", "restore"}
    /\ \E i, j \in DOMAIN cand.assignments :
           /\ i < j
           /\ TeamsOf(cand.assignments[i].Game) \cap TeamsOf(cand.assignments[j].Game) # {}
           /\ cand.assignments[j].Slot.Date < cand.assignments[i].Slot.Date

\* --- three games in four days
\* With the date added the team has three or more games within some four
\* days in a row.
ThreeInFourDays(s, team, date) ==
    \E w \in (date - 3)..date :
        Cardinality(DatesWith(s, team, date) \cap w..(w + 3)) >= 3

\* C39: with Max3In4Days set, hardConstraintCheck turns a candidate down for
\* the 3-in-4-days reason only if the placement would give one of the two
\* teams three games within some four days in a row.
C39_RejectsOnlyThreeInFour ==
    InAttempt =>
        \A game \in AllGames : \A slot \in AllSlots :
            hardConstraintCheck(cand, game, slot) = "reject3In4Days"
                => \E team \in TeamsOf(game) : ThreeInFourDays(cand, team, slot.Date)

\* --- termination
\* C40: Schedule terminates: run returns; every displacement search comes
\* back to the loop of Phase 3; every attempt that began reaches its end and
\* the loop head; and run has returned after exactly MaxAttempts attempts
\* (the 50 of the code).  The perfect-matching search is the operator
\* findMatchRecursive, evaluated within the step of Phase 1.
C40_ScheduleTerminates ==
    /\ <>(pc = "done")
    /\ (pc = "displace") ~> (pc = "phase3")
    /\ (pc = "phase1") ~> (pc = "run")
    /\ [](pc = "done" => (attempt = MaxAttempts /\ Len(history) = MaxAttempts))

\* run has returned after an attempt in which a displacement search failed
\* and an attempt in which every matchup was placed.
C40_Witness ==
    /\ pc = "done"
    /\ attempt = MaxAttempts
    /\ \E i \in DOMAIN history : history[i].stuckOnGame # Nil
    /\ \E i \in DOMAIN history : history[i].ok

====
